---- MODULE Spec2Model ----
(***************************************************************************)
(* Model of the PN532 host driver's wire protocol stack                    *)
(* (src/src/device/proto.rs, src/src/bus/mod.rs, src/src/error.rs).        *)
(*                                                                         *)
(* Bytes are integers 0..255 and all byte arithmetic wraps modulo 256, as  *)
(* the u8 wrapping_add / wrapping_sub of the source do.  Buffers that the  *)
(* source indexes from 0 are functions on 0..n-1; slices handed to a       *)
(* callee (&[u8]) are sequences.                                           *)
(***************************************************************************)
EXTENDS Integers, Sequences, FiniteSets, TLC

VARIABLES
    pc,           \* position of the caller: which call is in progress
    bus_writes,   \* the bus writes performed by the current call, in order
    bus_reads,    \* number of bus reads performed by the current call
    buf_to_send,  \* BufSender.buf_to_send: what the test device answers
    echo_buf,     \* Echo.buf: the loopback device's 262-byte store (<<>> when
                  \* another device is plugged in)
    device,       \* which transport is plugged in: "BufSender" or "Echo"
    sent,         \* the payload handed to the last send
    window,       \* recv's local 32-byte read buffer `buf`
    dst,          \* the caller's destination buffer `data`
    dst0,         \* the destination buffer as it was when recv was called
    result,       \* what the last call returned
    parser,       \* a ResponseParser fed byte by byte (unit-test harness)
    pre,          \* a PreambleParser fed byte by byte (unit-test harness)
    fed,          \* the bytes fed to `parser` / `pre` so far
    step,         \* what the last parser.next / pp.next call returned
    rounds,       \* number of send/recv round trips made through Echo
    chk_init,     \* calc_checksum's argument init
    chk_data,     \* calc_checksum's argument data
    chk_out,      \* what calc_checksum returned, -1 before the call
    wpc,          \* position inside a BusyWait call: "idle", "sleep", "read",
                  \* "check" (the elapsed-time test) or "done"
    wmode,        \* the call: "wait_read" or "wait_read_timeout"
    wdev,         \* BusyWait.device: "NeverReady" or "Bus" (any real bus)
    delay,        \* BusyWait.delay, in clock ticks
    timeout,      \* wait_read_timeout's argument timeout, in clock ticks
    now,          \* the monotonic clock (Instant::now())
    start_time,   \* wait_read_timeout's local start_time
    iter_start,   \* the clock when the current wait_iter was entered
    ops,          \* the sleeps and bus reads of the call, in order
    wbuf,         \* the buffer handed to the call
    wresult,      \* what the call returned
    cmd,          \* the command in progress on a PN532 (name and argument)
    cstage,       \* how far the command is: "idle", "sent", "ack", "acked",
                  \* "reply" or "done"
    cops,         \* the bus operations of the command and the outcomes of
                  \* its stages, in order
    cresult,      \* what the command returned
    ctags,        \* the tag records list_tags returned
    answered,     \* the chip's current answer has been read by the host
    tbuf,         \* TagBuffer.buf: the 256 bytes the cursors are views of
    tpc,          \* the cursor chain: "idle" (the buffer alone), "tags" (a
                  \* Tags), "tag" (a Tag), "none" (next returned None) or
                  \* "panic" (an index was out of range)
    tcount,       \* Tags.count
    toff,         \* where the cursor's response starts: response = &buf[toff..]
    tlast,        \* Tag.last
    tchain,       \* the offsets of the cursors handed out so far, in order
    tview,        \* what the last accessor call on the cursor returned
    trecs,        \* the tag records the chip reported in the buffer (<<>> when
                  \* the buffer does not hold well-formed records)
    \* --- a recv_with_timeout call made beside a recv call ---
    rt_pc,        \* "idle", "wait_read_timeout" or "recvd"
    rt_window,    \* recv_with_timeout's local buf (proto.rs:172)
    rt_dst,       \* the destination handed to recv_with_timeout
    rt_result     \* what recv_with_timeout returned

\* the variables of the calls on a connection and of the parser harness
protoVars == <<pc, bus_writes, bus_reads, buf_to_send, echo_buf, device, sent,
               window, dst, dst0, result, parser, pre, fed, step, rounds>>

\* the variables of the checksum harness
chkVars == <<chk_init, chk_data, chk_out>>

\* the variables of a BusyWait call
waitVars == <<wpc, wmode, wdev, delay, timeout, now, start_time, iter_start,
              ops, wbuf, wresult>>

\* the variables of a chain of tag cursors
tagVars == <<tbuf, tpc, tcount, toff, tlast, tchain, tview, trecs>>

\* the variables of a recv_with_timeout call
rtVars == <<rt_pc, rt_window, rt_dst, rt_result>>

\* the variables the calls on a connection leave alone
extVars == <<chkVars, waitVars, tagVars, rtVars>>

\* the variables of a command on a PN532
cmdVars == <<cmd, cstage, cops, cresult, ctags, answered>>

vars == <<protoVars, extVars, cmdVars>>

-----------------------------------------------------------------------------
(* Program constants *)

\* proto.rs:94  let mut outbuf = [0u8; 262];   proto.rs:270  buf: [u8; 262]
OutBufLen == 262
\* proto.rs:150  let mut buf = [0u8; 32];
WindowLen == 32
\* proto.rs:91  if data.len() > 254
MaxPayload == 254
\* proto.rs:99  outbuf[4] = 0xD4;
TFI_HOST == 212
\* proto.rs:52  FrameIdentifier(l) if b == 0xD5
TFI_DEVICE == 213
\* proto.rs:426  let mut recvbuf = [0u8; 256];
RecvBufLen == 256
\* device/mod.rs:214  let mut buf = [0u8; 256];
CmdBufLen == 256
\* device/tags_internal.rs:34  buf: [u8; 256]
TagBufLen == 256

-----------------------------------------------------------------------------
(* Bounds of the model *)

\* send is tried with payloads of 0..MaxSendLen bytes (both sides of 254)
MaxSendLen == 256
\* the caller's destination buffer has 0..MaxDst bytes
MaxDst == 2
\* a blocked wait_read is followed for MaxPolls iterations
MaxPolls == 3
\* the loopback device is sent payloads of 0..MaxEchoLen bytes
MaxEchoLen == 26
\* number of frames sent through the loopback device, one after the other
MaxRounds == 2
\* number of bytes fed to a parser
MaxFeed == 7
\* a response's frame starts at most MaxCut bytes before the window's end
MaxCut == 8
\* number of 0x00 / 0xFF bytes between the junk and the preamble
MaxLead == 2
\* number of bytes that follow a response's header
MaxBody == 3
\* calc_checksum is applied to sequences of 0..MaxChkLen bytes
MaxChkLen == 3
\* BusyWait.delay is 1..MaxDelay clock ticks
MaxDelay == 2
\* wait_read_timeout is called with a timeout of 0..MaxTimeout clock ticks
MaxTimeout == 3
\* a sleep overshoots the requested duration by 0..MaxJitter clock ticks
MaxJitter == 1
\* a bus read takes 0..MaxReadTime clock ticks
MaxReadTime == 1

-----------------------------------------------------------------------------
(* u8 arithmetic and slices *)

Byte == 0..255

Min(a, b) == IF a < b THEN a ELSE b

\* an addition that saturates at 255
saturating_add(a, b) == Min(a + b, 255)

\* u8::wrapping_add
wrapping_add(a, b) == (a + b) % 256

\* u8::wrapping_sub
wrapping_sub(a, b) == (a - b + 256) % 256

\* `x as u8` of a usize
as_u8(x) == x % 256

\* &buf[lo..hi] of a 0-based buffer, as a sequence
Slice(buf, lo, hi) == [i \in 1..(hi - lo) |-> buf[lo + i - 1]]

\* the sequence s as a 0-based buffer
AsBuf(s) == [i \in 0..(Len(s) - 1) |-> s[i + 1]]

\* buf.len() of a 0-based buffer
BufLen(buf) == Cardinality(DOMAIN buf)

\* [v; n]
Filled(n, v) == [i \in 0..(n - 1) |-> v]

\* buf[at..at+len(s)].copy_from_slice(s)
CopyInto(buf, at, s) ==
    [i \in DOMAIN buf |-> IF i >= at /\ i < at + Len(s) THEN s[i - at + 1] ELSE buf[i]]

\* &s[lo..hi] of a slice of n elements is in range; otherwise it panics
InRange(n, lo, hi) == lo <= hi /\ hi <= n

\* mathematical sum of a byte sequence (used by the properties only)
RECURSIVE SumRange(_, _, _)
SumRange(s, lo, hi) ==
    IF lo > hi THEN 0
    ELSE IF lo = hi THEN s[lo]
    ELSE LET mid == (lo + hi) \div 2
         IN  SumRange(s, lo, mid) + SumRange(s, mid + 1, hi)

SumSeq(s) == SumRange(s, 1, Len(s))

-----------------------------------------------------------------------------
(* Results (Result<_, SendError / RecvError / WaitError>) in one shape *)

NoResult == [status |-> "none", count |-> 0, err |-> "", byte |-> 0, what |-> ""]
Ok(n) == [status |-> "Ok", count |-> n, err |-> "", byte |-> 0, what |-> ""]
Err(e, b, w) == [status |-> "Err", count |-> 0, err |-> e, byte |-> b, what |-> w]

TooMuchData(n) == Err("TooMuchData", n, "")
WriteError == Err("WriteError", 0, "")
ReadError == Err("ReadError", 0, "")
UnexpectedEnd == Err("UnexpectedEnd", 0, "")
\* the transport's own error, D::ReadError
IoError == Err("IoError", 0, "")
\* WaitError::OtherError(e) and WaitError::Timeout
OtherError(e) == Err("OtherError", e.byte, e.err \o ":" \o e.what)
Timeout == Err("Timeout", 0, "")
\* the call does not return: a slice index out of range panics
Panic == [status |-> "Panic", count |-> 0, err |-> "", byte |-> 0, what |-> ""]
InvalidChecksum(t) == Err("InvalidChecksum", 0, t)
InvalidByte(b, expected) == Err("InvalidByte", b, expected)

-----------------------------------------------------------------------------
(* calc_checksum: a fold of wrapping_add over the data, seeded with init *)

\* The fold over data[lo..hi], left to right, from accumulator acc.  The
\* range is halved so that the evaluation depth stays logarithmic: the
\* left half is folded first (a u8, always in Byte) and seeds the right half.
RECURSIVE calc_checksum_fold(_, _, _, _)
calc_checksum_fold(acc, data, lo, hi) ==
    IF lo > hi THEN acc
    ELSE IF lo = hi THEN wrapping_add(acc, data[lo])
    ELSE LET mid == (lo + hi) \div 2
             left == calc_checksum_fold(acc, data, lo, mid)
         IN  IF left \in Byte THEN calc_checksum_fold(left, data, mid + 1, hi) ELSE left

\* a fold that forgets its seed
calc_checksum_unseeded(init, data) == calc_checksum_fold(0, data, 1, Len(data))

calc_checksum(init, data) == calc_checksum_fold(init, data, 1, Len(data))

-----------------------------------------------------------------------------
(* PreambleParser (proto.rs:10-32) *)

\* PreambleParser::default()
PreambleDefault == "Start"

\* the transition table of the specification: ZeroFound falls back to Start
\* on every byte other than 0xFF
PreambleParser_next_table(self, b) ==
    IF self = "ZeroFound" /\ b = 255 THEN "None"
    ELSE IF self = "Start" /\ b = 0 THEN "ZeroFound"
    ELSE "Start"

\* PreambleParser::next: "None" is the completed preamble, otherwise the
\* value is the next state.  The match arms are tried in order.
PreambleParser_next(self, b) ==
    IF self = "ZeroFound" /\ b = 255 THEN "None"
    ELSE IF b = 0 THEN "ZeroFound"
    ELSE "Start"

-----------------------------------------------------------------------------
(* ResponseParser (proto.rs:34-79) *)

Preamble(pp) == [st |-> "Preamble", pp |-> pp, l |-> 0]
Length == [st |-> "Length", pp |-> "", l |-> 0]
LengthChksum(l) == [st |-> "LengthChksum", pp |-> "", l |-> l]
FrameIdentifier(l) == [st |-> "FrameIdentifier", pp |-> "", l |-> l]
Done(l) == [st |-> "Done", pp |-> "", l |-> l]

\* ResponseParser::default()
ResponseDefault == Preamble(PreambleDefault)

\* what ResponseParser::next returns together with the parser it leaves:
\* ret is Ok(1) for Ok(true), Ok(0) for Ok(false), or the DataError
Stepped(self, ret) == [self |-> self, ret |-> ret]

\* the state assigned to *self, after which Ok(!Done) is returned
Advance(self) == Stepped(self, IF self.st = "Done" THEN Ok(0) ELSE Ok(1))

\* a parser that takes the length checksum on trust
ResponseParser_next_nochk(self, b) ==
    CASE self.st = "Preamble" ->
            LET n == PreambleParser_next(self.pp, b)
            IN  Advance(IF n = "None" THEN Length ELSE Preamble(n))
      [] self.st = "Length" -> Advance(LengthChksum(b))
      [] self.st = "LengthChksum" -> Advance(FrameIdentifier(self.l))
      [] self.st = "FrameIdentifier" /\ b = TFI_DEVICE -> Advance(Done(self.l))
      [] self.st = "Done" -> Advance(Done(self.l))
      [] OTHER -> Stepped(self, InvalidByte(b, "0xD5"))

\* a parser that restarts after a finished frame
ResponseParser_next_restart(self, b) ==
    CASE self.st = "Preamble" ->
            LET n == PreambleParser_next(self.pp, b)
            IN  Advance(IF n = "None" THEN Length ELSE Preamble(n))
      [] self.st = "Length" -> Advance(LengthChksum(b))
      [] self.st = "LengthChksum" /\ wrapping_add(self.l, b) = 0 ->
            Advance(FrameIdentifier(self.l))
      [] self.st = "FrameIdentifier" /\ b = TFI_DEVICE -> Advance(Done(self.l))
      [] self.st = "Done" -> Advance(ResponseDefault)
      [] self.st = "LengthChksum" /\ wrapping_add(self.l, b) # 0 ->
            Stepped(self, InvalidChecksum("Length"))
      [] OTHER -> Stepped(self, InvalidByte(b, "0xD5"))

\* ResponseParser::next.  On an error the early return leaves *self as it was.
ResponseParser_next(self, b) ==
    CASE self.st = "Preamble" ->
            LET n == PreambleParser_next(self.pp, b)
            IN  Advance(IF n = "None" THEN Length ELSE Preamble(n))
      [] self.st = "Length" -> Advance(LengthChksum(b))
      [] self.st = "LengthChksum" /\ wrapping_add(self.l, b) = 0 ->
            Advance(FrameIdentifier(self.l))
      [] self.st = "FrameIdentifier" /\ b = TFI_DEVICE -> Advance(Done(self.l))
      [] self.st = "Done" -> Advance(Done(self.l))
      [] self.st = "LengthChksum" /\ wrapping_add(self.l, b) # 0 ->
            Stepped(self, InvalidChecksum("Length"))
      [] OTHER -> Stepped(self, InvalidByte(b, "0xD5"))

\* ResponseParser::pkt_len: -1 stands for None
pkt_len(self) == IF self.st = "Done" THEN self.l ELSE -1

-----------------------------------------------------------------------------
(* PN532Proto::send (proto.rs:90-104) *)

\* outbuf as send fills it, statement by statement
OutBuf(data) ==
    LET n  == Len(data)
        b0 == Filled(OutBufLen, 0)
        b1 == [b0 EXCEPT ![1] = 255]
        b2 == [b1 EXCEPT ![2] = as_u8(n + 1)]
        b3 == [b2 EXCEPT ![3] = wrapping_sub(0, b2[2])]
        b4 == [b3 EXCEPT ![4] = TFI_HOST]
        b5 == [b4 EXCEPT ![5 + n] = wrapping_sub(0, calc_checksum(TFI_HOST, data))]
    IN  CopyInto(b5, 5, data)

\* a frame whose length byte forgets the frame identifier
SendFrame_len0(data) ==
    LET f == Slice(OutBuf(data), 0, Len(data) + 6)
    IN  [f EXCEPT ![3] = as_u8(Len(data)), ![4] = wrapping_sub(0, as_u8(Len(data)))]

\* the slice handed to device.write: &outbuf[0..(data.len() + 6)]
SendFrame(data) == Slice(OutBuf(data), 0, Len(data) + 6)

\* an off-by-one limit
SendTooMuch_255(data) == Len(data) > MaxPayload + 1

\* the guard of the early return: data.len() > 254
SendTooMuch(data) == Len(data) > MaxPayload

-----------------------------------------------------------------------------
(* Transports.  BufSender and Echo are the doubles of proto.rs's tests;   *)
(* "I2C" is a real bus, whose reads and writes may fail.                   *)

\* Echo::write (proto.rs:301-310) applied to Echo.buf
EchoWrite(ebuf, frame) ==
    LET to_copy == Min(Len(frame), OutBufLen)
        e1 == CopyInto(ebuf, 0, SubSeq(frame, 1, to_copy))
        e2 == [e1 EXCEPT ![4] = TFI_DEVICE]
    IN  [e2 EXCEPT ![Len(frame) - 1] = wrapping_sub(e2[Len(frame) - 1], 1)]

\* BufSender::read (proto.rs:248-258) into a non-empty buf
BufSenderRead(buf, tosend) ==
    LET to_copy == Min(Len(buf), Len(tosend))
    IN  AsBuf(SubSeq(tosend, 1, to_copy) \o SubSeq(buf, to_copy + 1, Len(buf)))

\* Echo::read (proto.rs:284-295) into a non-empty buf
EchoRead(buf, ebuf) ==
    LET b1 == [AsBuf(buf) EXCEPT ![0] = 1]
        to_copy == Min(Len(buf) - 1, OutBufLen)
    IN  CopyInto(b1, 1, Slice(ebuf, 0, to_copy))

\* BusRead::read of the plugged-in device into the 32-byte window
DeviceRead(buf) ==
    IF device = "Echo" THEN EchoRead(Slice(buf, 0, WindowLen), echo_buf)
    ELSE BufSenderRead(Slice(buf, 0, WindowLen), buf_to_send)

-----------------------------------------------------------------------------
(* BusyWait (bus/mod.rs:44-99) *)

\* NeverReady::read (bus/mod.rs:119-126) into a non-empty buf
NeverReadyRead(buf) == [buf EXCEPT ![0] = 0]

\* a bus read that delivers b as the first byte
BusReadInto(buf, b) == [i \in DOMAIN buf |-> IF i = 0 THEN b ELSE 0]

\* a readiness test that takes any non-zero byte for ready
Ready_nonzero(buf) == buf[0] # 0

\* the readiness test of wait_iter: buf[0] & 1 == 1
Ready(buf) == buf[0] % 2 = 1

\* a wait_iter that takes a failed read for "not ready"
wait_iter_swallow(rok, buf) ==
    IF ~rok THEN Ok(0)
    ELSE IF Ready(buf) THEN Ok(1) ELSE Ok(0)

\* what wait_iter returns after its read: the read's error (try!), or
\* Ok(1) for Ok(true), Ok(0) for Ok(false)
wait_iter(rok, buf) ==
    IF ~rok THEN IoError
    ELSE IF Ready(buf) THEN Ok(1) ELSE Ok(0)

\* an elapsed-time test that fires when the timeout is just reached
TimedOut_atleast(elapsed, limit) == elapsed >= limit

\* the elapsed-time test of wait_read_timeout: start_time.elapsed() > timeout
TimedOut(elapsed, limit) == elapsed > limit

\* a loop that never tests the deadline
AfterNotReady_nocheck(mode) == "sleep"

\* a loop that tests the deadline in wait_read as well
AfterNotReady_check(mode) == "check"

\* where the loop goes after wait_iter has returned Ok(false): wait_read
\* starts the next iteration (bus/mod.rs:80-84), wait_read_timeout tests the
\* elapsed time first (bus/mod.rs:94)
AfterNotReady(mode) == IF mode = "wait_read_timeout" THEN "check" ELSE "sleep"

\* a loop that tests the deadline before it looks at what wait_iter returned
WaitReturn_deadlinefirst(mode, buf, late) ==
    IF mode = "wait_read_timeout" /\ late THEN Timeout ELSE Ok(BufLen(buf))

\* what the loop returns once wait_iter has returned Ok(true): buf.len(),
\* whether or not the deadline has passed by then (bus/mod.rs:81-83, 90-92)
WaitReturn(mode, buf, late) == Ok(BufLen(buf))

\* impl From<E> for WaitError<E> (error.rs:50-54), applied by try!
WaitErrorFrom(e) == OtherError(e)

WaitError_map_keep(self, mapped) == self

\* WaitError::map (error.rs:16-23): Timeout stays Timeout, OtherError(e)
\* becomes OtherError(f(e)); mapped is f(e)
WaitError_map(self, mapped) ==
    IF self.err = "Timeout" THEN Timeout ELSE OtherError(mapped)

-----------------------------------------------------------------------------
(* PN532Proto::process_packet (proto.rs:112-147) *)

\* the loop `for b in iter.by_ref()`: feeds recved[i..] to the parser until
\* it errs, says Ok(false), or the slice is exhausted.  Yields the parser,
\* the number of bytes the iterator has handed out, and the error if any.
RECURSIVE ParseLoop(_, _, _)
ParseLoop(recved, i, p) ==
    IF i > Len(recved) THEN [parser |-> p, used |-> Len(recved), err |-> NoResult]
    ELSE LET s == ResponseParser_next(p, recved[i])
         IN  IF s.ret.status = "Err" THEN [parser |-> s.self, used |-> i, err |-> s.ret]
             ELSE IF s.ret.count = 0 THEN [parser |-> s.self, used |-> i, err |-> NoResult]
             ELSE ParseLoop(recved, i + 1, s.self)

\* what process_packet returns and the destination it leaves
Processed(ret, data) == [ret |-> ret, dst |-> data]

\* a variant that copies the checksum byte along with the payload
FinishPacket_withdcs(len, pkt, data) ==
    IF len > Len(pkt) THEN Processed(UnexpectedEnd, data)
    ELSE IF len = 0 THEN Processed(InvalidByte(0, "value at least 0x01"), data)
    ELSE LET slice == SubSeq(pkt, 1, len)
         IN  IF calc_checksum(TFI_DEVICE, slice) # 0
             THEN Processed(InvalidChecksum("Data"), data)
             ELSE LET to_copy == Min(len, BufLen(data))
                  IN  Processed(Ok(to_copy), CopyInto(data, 0, SubSeq(slice, 1, to_copy)))

\* a variant that evaluates the data checksum before the length test
FinishPacket_chkfirst(len, pkt, data) ==
    LET avail == Min(len, Len(pkt))
    IN  IF calc_checksum(TFI_DEVICE, SubSeq(pkt, 1, avail)) # 0
        THEN Processed(InvalidChecksum("Data"), data)
        ELSE IF len > Len(pkt) THEN Processed(UnexpectedEnd, data)
        ELSE IF len = 0 THEN Processed(InvalidByte(0, "value at least 0x01"), data)
        ELSE LET to_copy == Min(len - 1, BufLen(data))
             IN  Processed(Ok(to_copy), CopyInto(data, 0, SubSeq(pkt, 1, to_copy)))

\* a variant whose data checksum leaves the seed 0xD5 out
FinishPacket_noseed(len, pkt, data) ==
    IF len > Len(pkt) THEN Processed(UnexpectedEnd, data)
    ELSE IF len = 0 THEN Processed(InvalidByte(0, "value at least 0x01"), data)
    ELSE LET slice == SubSeq(pkt, 1, len)
         IN  IF calc_checksum(0, slice) # 0
             THEN Processed(InvalidChecksum("Data"), data)
             ELSE LET to_copy == Min(len - 1, BufLen(data))
                  IN  Processed(Ok(to_copy), CopyInto(data, 0, SubSeq(slice, 1, to_copy)))

\* a variant without the test for an empty frame
FinishPacket_nozero(len, pkt, data) ==
    IF len > Len(pkt) THEN Processed(UnexpectedEnd, data)
    ELSE LET slice == SubSeq(pkt, 1, len)
         IN  IF calc_checksum(TFI_DEVICE, slice) # 0
             THEN Processed(InvalidChecksum("Data"), data)
             ELSE LET to_copy == Min(len - 1, BufLen(data))
                  IN  Processed(Ok(to_copy), CopyInto(data, 0, SubSeq(slice, 1, to_copy)))

\* a variant without the test of len against what the window has left
FinishPacket_nolen(len, pkt, data) ==
    IF len = 0 THEN Processed(InvalidByte(0, "value at least 0x01"), data)
    ELSE IF ~InRange(Len(pkt), 0, len) THEN Processed(Panic, data)
    ELSE LET slice == SubSeq(pkt, 1, len)
         IN  IF calc_checksum(TFI_DEVICE, slice) # 0
             THEN Processed(InvalidChecksum("Data"), data)
             ELSE LET to_copy == Min(len - 1, BufLen(data))
                  IN  IF ~InRange(len, 0, to_copy) \/ ~InRange(BufLen(data), 0, to_copy)
                      THEN Processed(Panic, data)
                      ELSE Processed(Ok(to_copy),
                                     CopyInto(data, 0, SubSeq(slice, 1, to_copy)))

\* a variant that copies the payload before it tests the data checksum
FinishPacket_copyfirst(len, pkt, data) ==
    IF len > Len(pkt) THEN Processed(UnexpectedEnd, data)
    ELSE IF len = 0 THEN Processed(InvalidByte(0, "value at least 0x01"), data)
    ELSE LET slice == SubSeq(pkt, 1, len)
             to_copy == Min(len - 1, BufLen(data))
             copied == CopyInto(data, 0, SubSeq(slice, 1, to_copy))
         IN  IF calc_checksum(TFI_DEVICE, slice) # 0
             THEN Processed(InvalidChecksum("Data"), copied)
             ELSE Processed(Ok(to_copy), copied)

\* the tail of process_packet once the parser exposes len (proto.rs:125-146):
\* pkt is what the iterator has left, data the destination (0-based).  The
\* slices &pkt[0..len], &slice[0..to_copy] and &mut dst[0..to_copy] are
\* bounds-checked: an index out of range panics.
FinishPacket(len, pkt, data) ==
    IF len > Len(pkt) THEN Processed(UnexpectedEnd, data)
    ELSE IF len = 0 THEN Processed(InvalidByte(0, "value at least 0x01"), data)
    ELSE IF ~InRange(Len(pkt), 0, len) THEN Processed(Panic, data)
    ELSE LET slice == SubSeq(pkt, 1, len)
         IN  IF calc_checksum(TFI_DEVICE, slice) # 0
             THEN Processed(InvalidChecksum("Data"), data)
             ELSE LET to_copy == Min(len - 1, BufLen(data))
                  IN  IF ~InRange(len, 0, to_copy) \/ ~InRange(BufLen(data), 0, to_copy)
                      THEN Processed(Panic, data)
                      ELSE Processed(Ok(to_copy),
                                     CopyInto(data, 0, SubSeq(slice, 1, to_copy)))

\* process_packet(recved, dst)
process_packet(recved, data) ==
    LET run == ParseLoop(recved, 1, ResponseDefault)
    IN  IF run.err.status = "Err" THEN Processed(run.err, data)
        ELSE IF pkt_len(run.parser) = -1 THEN Processed(UnexpectedEnd, data)
        ELSE FinishPacket(pkt_len(run.parser),
                          SubSeq(recved, run.used + 1, Len(recved)), data)

-----------------------------------------------------------------------------
(* PN532Proto::recv_ack (proto.rs:156-169) *)

\* a scan that leaves the window's last byte out
RECURSIVE recv_ack_scan_short(_, _, _)
recv_ack_scan_short(buf, i, pp) ==
    IF i > Len(buf) - 1 THEN UnexpectedEnd
    ELSE LET n == PreambleParser_next(pp, buf[i])
         IN  IF n = "None" THEN Ok(0) ELSE recv_ack_scan_short(buf, i + 1, n)

\* the loop `for b in &buf` from buf[i] on with the PreambleParser pp:
\* Ok(()) as soon as next returns None, UnexpectedEnd behind the last byte
RECURSIVE recv_ack_scan(_, _, _)
recv_ack_scan(buf, i, pp) ==
    IF i > Len(buf) THEN UnexpectedEnd
    ELSE LET n == PreambleParser_next(pp, buf[i])
         IN  IF n = "None" THEN Ok(0) ELSE recv_ack_scan(buf, i + 1, n)

-----------------------------------------------------------------------------
(* PN532::sam_configure (device/mod.rs:7-37, 187-211) *)

\* SAMMode: to is the Option<u8> (or, for VirtualCard, the u8) the variant
\* carries, -1 standing for None
Normal(to) == [kind |-> "Normal", to |-> to]
VirtualCard(to) == [kind |-> "VirtualCard", to |-> to]
WiredCard(to) == [kind |-> "WiredCard", to |-> to]
DualCard(to) == [kind |-> "DualCard", to |-> to]

\* SAMMode::code
SAMMode_code(self) ==
    CASE self.kind = "Normal" -> 1
      [] self.kind = "VirtualCard" -> 2
      [] self.kind = "WiredCard" -> 3
      [] self.kind = "DualCard" -> 4

\* SAMMode::timeout: -1 stands for None
SAMMode_timeout(self) == self.to

\* a command that always carries a timeout byte
SamCommand_always4(mode) ==
    LET cmd_buf == <<20, SAMMode_code(mode), 1, 1>>
        to == SAMMode_timeout(mode)
    IN  IF to # -1 THEN [cmd_buf EXCEPT ![3] = to] ELSE cmd_buf

\* the slice cmd that sam_configure hands to send_wait_ack
SamCommand(mode) ==
    LET cmd_buf == <<20, SAMMode_code(mode), 1, 1>>
        to == SAMMode_timeout(mode)
    IN  IF to # -1 THEN [cmd_buf EXCEPT ![3] = to] ELSE SubSeq(cmd_buf, 1, 3)

\* a reply test that takes any non-empty reply
SamResult_anybyte(r, rcvbuf) ==
    IF r.status = "Err" THEN r
    ELSE IF r.count > 0 THEN Ok(0)
    ELSE UnexpectedEnd

\* what sam_configure returns once recv_reply_ack has returned r and left
\* rcvbuf (mod.rs:201-210)
SamResult(r, rcvbuf) ==
    IF r.status = "Err" THEN r
    ELSE IF r.count > 0
         THEN IF rcvbuf[0] = 21 THEN Ok(0)
              ELSE InvalidByte(rcvbuf[0], "0x15")
         ELSE UnexpectedEnd

-----------------------------------------------------------------------------
(* PN532::list_tags (device/mod.rs:60-168, 213-233) *)

\* ListTagData: limit is 1 or 2 (Limit::One / Two), some says whether the
\* Option carries a value, data is the uid or the FeliCa payload
ISO14443A(limit, some, uid) ==
    [kind |-> "ISO14443A", limit |-> limit, some |-> some, data |-> uid, afi |-> 0, pm |-> 0]
FeliCa212(limit, payload) ==
    [kind |-> "FeliCa212", limit |-> limit, some |-> TRUE, data |-> payload, afi |-> 0, pm |-> 0]
FeliCa424(limit, payload) ==
    [kind |-> "FeliCa424", limit |-> limit, some |-> TRUE, data |-> payload, afi |-> 0, pm |-> 0]
\* pm is PollingMethod::code of the polling method, when there is one
ISO14443B(limit, afi, some, pm) ==
    [kind |-> "ISO14443B", limit |-> limit, some |-> some, data |-> <<>>, afi |-> afi, pm |-> pm]
JewelTag ==
    [kind |-> "JewelTag", limit |-> 1, some |-> FALSE, data |-> <<>>, afi |-> 0, pm |-> 0]

\* ListTagData::limit_u8
limit_u8(self) == IF self.kind = "JewelTag" THEN 1 ELSE self.limit

\* what fill_buf leaves: the buffer, the length it returns, and whether a
\* slice index was out of range
Filling(buf, len) == [buf |-> buf, len |-> len, panic |-> FALSE]
FillPanic(buf) == [buf |-> buf, len |-> 0, panic |-> TRUE]

\* ListTagData::fill_buf on the 0-based buffer buf
fill_buf(self, buf) ==
    LET b0 == [buf EXCEPT ![0] = limit_u8(self)]
    IN  CASE self.kind = "ISO14443A" /\ self.some ->
               LET b1 == [b0 EXCEPT ![1] = 0]
                   to_copy == Min(BufLen(buf), Len(self.data))
               IN  IF 2 + to_copy > BufLen(buf) THEN FillPanic(b1)
                   ELSE Filling(CopyInto(b1, 2, SubSeq(self.data, 1, to_copy)),
                                to_copy + 1)
          [] self.kind = "ISO14443A" /\ ~self.some ->
               Filling([b0 EXCEPT ![1] = 0], 2)
          [] self.kind = "ISO14443B" /\ self.some ->
               Filling([b0 EXCEPT ![1] = 3, ![2] = self.afi, ![3] = self.pm], 4)
          [] self.kind = "ISO14443B" /\ ~self.some ->
               Filling([b0 EXCEPT ![1] = 3, ![2] = self.afi], 3)
          [] self.kind = "FeliCa212" ->
               Filling(CopyInto([b0 EXCEPT ![1] = 1], 2, self.data), 7)
          [] self.kind = "FeliCa424" ->
               Filling(CopyInto([b0 EXCEPT ![1] = 2], 2, self.data), 7)
          [] self.kind = "JewelTag" ->
               Filling([b0 EXCEPT ![1] = 4], 2)

\* ISO14443AListOptions::fill_buf (tags_internal.rs:228-238) on the 0-based
\* buffer buf of two bytes or more; self.some / self.data are the Option uid
ISO14443AListOptions_fill_buf(self, buf) ==
    LET b1 == [buf EXCEPT ![0] = self.limit, ![1] = 0]
    IN  IF ~self.some THEN Filling(b1, 2)
        ELSE LET to_copy == Min(BufLen(buf) - 2, Len(self.data))
             IN  Filling(CopyInto(b1, 2, SubSeq(self.data, 1, to_copy)), to_copy + 2)

\* list_tags, lines 214-216: the command buffer after fill_buf has written
\* to buf[1..], the length fill_buf returned, and whether it panicked
ListTagsBuf(op_data) ==
    LET f == fill_buf(op_data, Filled(CmdBufLen - 1, 0))
    IN  [buf |-> [i \in 0..(CmdBufLen - 1) |-> IF i = 0 THEN 74 ELSE f.buf[i - 1]],
         len |-> f.len, panic |-> f.panic]

\* the slice list_tags hands to send_wait_ack: &buf[..(1 + len)]
ListTagsCommand(op_data) ==
    LET f == ListTagsBuf(op_data) IN Slice(f.buf, 0, 1 + f.len)

\* ListTagData::calc_recved_size on the slice data; -1 when an index is out
\* of range (a panic)
calc_recved_size(self, data) ==
    CASE self.kind = "ISO14443A" ->
             IF Len(data) <= 3 THEN -1
             ELSE LET nfcid_len == data[4]
                  IN  IF Len(data) <= 4 + nfcid_len THEN -1
                      ELSE 4 + nfcid_len + 1 + data[5 + nfcid_len]
      [] self.kind = "ISO14443B" ->
             IF Len(data) <= 12 THEN -1 ELSE 12 + 1 + data[13]
      [] self.kind \in {"FeliCa212", "FeliCa424"} ->
             IF Len(data) <= 1 THEN -1 ELSE data[2]
      [] self.kind = "JewelTag" -> 6

\* what list_tags returns and the tags it has collected
Listed(ret, tags) == [ret |-> ret, tags |-> tags]

\* the loop `for _ in 0..ntags` of list_tags with n iterations to go, res
\* being the tags pushed so far (Len(res), never negative, is evaluated at
\* every iteration so that res is built as the loop goes)
RECURSIVE ListTagsLoop(_, _, _, _, _)
ListTagsLoop(op_data, buf, offset, n, res) ==
    IF n = 0 \/ Len(res) < 0 THEN Listed(Ok(Len(res)), res)
    ELSE IF offset > BufLen(buf) THEN Listed(Panic, res)
    ELSE LET tag_len == calc_recved_size(op_data, Slice(buf, offset, BufLen(buf)))
         IN  IF tag_len = -1 \/ offset + tag_len > BufLen(buf) THEN Listed(Panic, res)
             ELSE ListTagsLoop(op_data, buf, offset + tag_len + 1, n - 1,
                               Append(res, Slice(buf, offset, offset + tag_len)))

\* what list_tags returns once recv_reply_ack has returned r and left buf
\* (mod.rs:219-232)
ListTagsResult(op_data, r, buf) ==
    IF r.status = "Err" THEN Listed(r, <<>>)
    ELSE ListTagsLoop(op_data, buf, 4, buf[1], <<>>)

-----------------------------------------------------------------------------
(* Tags and Tag cursors (device/tags_internal.rs) *)

\* what an accessor of a cursor returns: a value (a number or bytes, as a
\* sequence), or nothing because an index was out of range (a panic)
NoView == [state |-> "none", val |-> <<>>]
Got(v) == [state |-> "Ok", val |-> v]
OutOfRange == [state |-> "Panic", val |-> <<>>]

\* data[i] of the slice data, indexed from 0: -1 when i is out of range
Index(data, i) == IF i < Len(data) THEN data[i + 1] ELSE -1

\* the response of a cursor at offset off: the slice &buf[off..]
Response(buf, off) == Slice(buf, off, BufLen(buf))

\* ISO14443A::id_len: self.data[4]
ISO14443A_id_len(data) == Index(data, 4)

\* ISO14443A::ats_len: self.data[5 + self.id_len()]
ISO14443A_ats_len(data) ==
    LET n == ISO14443A_id_len(data)
    IN  IF n = -1 THEN -1 ELSE Index(data, 5 + n)

\* ISO14443A::len: id_len() + ats_len() + 4, -1 when either panics
ISO14443A_len(data) ==
    LET n == ISO14443A_id_len(data)
        m == ISO14443A_ats_len(data)
    IN  IF n = -1 \/ m = -1 THEN -1 ELSE n + m + 4

\* TagResponse::next on the response at offset off: the offset of
\* &self.into_buf()[len..], -1 when len() panics or len is past the end
TagResponse_next(buf, off) ==
    LET data == Response(buf, off)
        len == ISO14443A_len(data)
    IN  IF len = -1 \/ len > Len(data) THEN -1 ELSE off + len

\* TagResponse::tag_num: self.buf()[0]
TagResponse_tag_num(data) ==
    IF Index(data, 0) = -1 THEN OutOfRange ELSE Got(<<Index(data, 0)>>)

\* Tag::sens_res: (buf[1] << 8) | buf[2]; buf[1] is read first
Tag_sens_res(data) ==
    IF Index(data, 1) = -1 \/ Index(data, 2) = -1 THEN OutOfRange
    ELSE Got(<<Index(data, 1) * 256 + Index(data, 2)>>)

\* Tag::sel_res: buf[3]
Tag_sel_res(data) ==
    IF Index(data, 3) = -1 THEN OutOfRange ELSE Got(<<Index(data, 3)>>)

\* Tag::id_len
Tag_id_len(data) ==
    IF ISO14443A_id_len(data) = -1 THEN OutOfRange
    ELSE Got(<<ISO14443A_id_len(data)>>)

\* Tag::id: &buf[5..(5 + id_len)]
Tag_id(data) ==
    LET n == ISO14443A_id_len(data)
    IN  IF n = -1 \/ 5 + n > Len(data) THEN OutOfRange
        ELSE Got(SubSeq(data, 6, 5 + n))

\* Tag::ats_len
Tag_ats_len(data) ==
    IF ISO14443A_ats_len(data) = -1 THEN OutOfRange
    ELSE Got(<<ISO14443A_ats_len(data)>>)

\* Tag::ats: &buf[(5 + id_len + 1)..]
Tag_ats(data) ==
    LET n == ISO14443A_id_len(data)
    IN  IF n = -1 \/ 6 + n > Len(data) THEN OutOfRange
        ELSE Got(SubSeq(data, 7 + n, Len(data)))

\* the accessors of a Tag over an ISO14443A response
Accessors == {"tag_num", "sens_res", "sel_res", "id_len", "id", "ats_len", "ats"}

Access(name, data) ==
    CASE name = "tag_num" -> TagResponse_tag_num(data)
      [] name = "sens_res" -> Tag_sens_res(data)
      [] name = "sel_res" -> Tag_sel_res(data)
      [] name = "id_len" -> Tag_id_len(data)
      [] name = "id" -> Tag_id(data)
      [] name = "ats_len" -> Tag_ats_len(data)
      [] name = "ats" -> Tag_ats(data)

\* Tags::new: response = R::new(&buf.buf[2..]), count = buf.buf[1]
Tags_new(buf) == [offset |-> 2, count |-> buf[1]]

\* a first cursor that is last exactly for one tag
Tags_first_one(self) == [offset |-> self.offset, last |-> self.count = 1]

\* Tags::first: the cursor over self.response, last: count != 2
Tags_first(self) == [offset |-> self.offset, last |-> self.count # 2]

\* what Tag::next returns: Some(Tag), None, or nothing (a panic)
SomeTag(offset, last) == [opt |-> "Some", offset |-> offset, last |-> last]
NoTag == [opt |-> "None", offset |-> 0, last |-> TRUE]
TagPanic == [opt |-> "Panic", offset |-> 0, last |-> TRUE]

\* Tag::next on the cursor at offset off with flag last
Tag_next(buf, off, last) ==
    IF last THEN NoTag
    ELSE IF TagResponse_next(buf, off) = -1 THEN TagPanic
    ELSE SomeTag(TagResponse_next(buf, off), TRUE)

-----------------------------------------------------------------------------
(* The calls, as actions *)

\* the caller's destination before recv: n bytes of 0xEE, a value no frame of
\* the model carries, so that written and untouched bytes can be told apart
FreshDst(n) == Filled(n, 238)

Callable == pc \in {"idle", "sent", "recvd", "acked"}

\* test doubles never fail; a real bus may
MayFail == device = "I2C"

\* PN532Proto::send(data); wok is the outcome of the transport's write
SendCall(data, wok) ==
    /\ Callable
    /\ wok \/ MayFail
    /\ pc' = "sent"
    /\ sent' = data
    /\ bus_reads' = 0
    /\ IF SendTooMuch(data)
       THEN /\ result' = TooMuchData(Len(data))
            /\ bus_writes' = <<>>
            /\ echo_buf' = echo_buf
       ELSE /\ bus_writes' = <<SendFrame(data)>>
            /\ result' = IF wok THEN Ok(0) ELSE WriteError
            /\ echo_buf' = IF device = "Echo" /\ wok
                           THEN EchoWrite(echo_buf, SendFrame(data))
                           ELSE echo_buf
    /\ UNCHANGED <<buf_to_send, device, window, dst, dst0, parser, pre, fed,
                   step>>
    /\ UNCHANGED extVars

\* PN532Proto::recv(data) up to its call of wait_read: the caller hands in
\* a destination of n bytes, recv zeroes its local window (proto.rs:150)
RecvIntoStep(data) ==
    /\ Callable
    /\ pc' = "wait_read"
    /\ window' = Filled(WindowLen, 0)
    /\ dst' = data
    /\ dst0' = data
    /\ bus_writes' = <<>>
    /\ bus_reads' = 0
    /\ result' = NoResult
    /\ UNCHANGED <<buf_to_send, echo_buf, device, sent, parser, pre, fed, step,
                   rounds>>

\* recv called on its own
RecvInto(data) == RecvIntoStep(data) /\ UNCHANGED extVars

\* recv into a fresh destination of n bytes
RecvCall(n) == RecvInto(FreshDst(n))

\* One iteration of BusyWait::wait_read's loop (bus/mod.rs:67-85) inside
\* recv, and, when the device is ready, the rest of recv (proto.rs:151-153).
\* rok is the outcome of the transport's read.
WaitIterStep(rok) ==
    /\ pc = "wait_read"
    /\ bus_reads < MaxPolls
    /\ rok \/ MayFail
    /\ bus_reads' = bus_reads + 1
    /\ IF ~rok
       THEN /\ result' = ReadError
            /\ pc' = "recvd"
            /\ UNCHANGED <<window, dst>>
       ELSE LET w == DeviceRead(window)
            IN  /\ window' = w
                /\ IF w[0] % 2 = 1
                   THEN LET r == process_packet(Slice(w, 0, BufLen(w)), dst)
                        IN  /\ result' = r.ret
                            /\ dst' = r.dst
                            /\ pc' = "recvd"
                   ELSE UNCHANGED <<result, dst, pc>>
    /\ UNCHANGED <<bus_writes, buf_to_send, echo_buf, device, sent, dst0,
                   parser, pre, fed, step, rounds>>

\* an iteration of a recv called on its own
WaitIter(rok) == WaitIterStep(rok) /\ UNCHANGED extVars

\* PN532Proto::recv_ack up to its call of wait_read: the local window is
\* zeroed (proto.rs:157)
RecvAckCall ==
    /\ Callable
    /\ pc' = "wait_ack"
    /\ window' = Filled(WindowLen, 0)
    /\ bus_writes' = <<>>
    /\ bus_reads' = 0
    /\ result' = NoResult
    /\ UNCHANGED <<buf_to_send, echo_buf, device, sent, dst, dst0, parser, pre,
                   fed, step, rounds>>
    /\ UNCHANGED extVars

\* One iteration of BusyWait::wait_read's loop inside recv_ack, and, when
\* the device is ready, the rest of recv_ack (proto.rs:160-168): all 32
\* bytes of buf are scanned, the ready byte included.
AckWaitIter(rok) ==
    /\ pc = "wait_ack"
    /\ bus_reads < MaxPolls
    /\ rok \/ MayFail
    /\ bus_reads' = bus_reads + 1
    /\ IF ~rok
       THEN /\ result' = ReadError
            /\ pc' = "acked"
            /\ UNCHANGED window
       ELSE LET w == DeviceRead(window)
            IN  /\ window' = w
                /\ IF w[0] % 2 = 1
                   THEN /\ result' = recv_ack_scan(Slice(w, 0, WindowLen), 1,
                                                   PreambleDefault)
                        /\ pc' = "acked"
                   ELSE UNCHANGED <<result, pc>>
    /\ UNCHANGED <<bus_writes, buf_to_send, echo_buf, device, sent, dst, dst0,
                   parser, pre, fed, step, rounds>>
    /\ UNCHANGED extVars

\* entries of ops
SleepOp(d) == [op |-> "sleep", arg |-> d]
ReadOp(b) == [op |-> "read", arg |-> b]
ReadErrOp == [op |-> "read_err", arg |-> 0]

\* wait_read(buf) / wait_read_timeout(buf, timeout) is entered; the latter
\* takes start_time (bus/mod.rs:88)
WaitCall(mode) ==
    /\ wpc = "idle"
    /\ wmode' = mode
    /\ wpc' = "sleep"
    /\ start_time' = IF mode = "wait_read_timeout" THEN now ELSE start_time
    /\ ops' = <<>>
    /\ wresult' = NoResult
    /\ UNCHANGED <<wdev, delay, timeout, now, iter_start, wbuf>>
    /\ UNCHANGED <<protoVars, chkVars, tagVars, rtVars, cmdVars>>

\* wait_iter, line 68: thread::sleep(self.delay) returns after the delay or
\* later.  A wait_read that never gets a ready byte is followed for
\* MaxPolls iterations.
WaitSleep(jitter) ==
    /\ wpc = "sleep"
    /\ wmode = "wait_read" => Len(ops) < 2 * MaxPolls
    /\ ops' = Append(ops, SleepOp(delay))
    /\ iter_start' = now
    /\ now' = now + delay + jitter
    /\ wpc' = "read"
    /\ UNCHANGED <<wmode, wdev, delay, timeout, start_time, wbuf, wresult>>
    /\ UNCHANGED <<protoVars, chkVars, tagVars, rtVars, cmdVars>>

\* wait_iter, lines 70-72, and what the caller's loop does with the value:
\* the read fails (rok false) or delivers b as the first byte, after took
\* clock ticks
WaitRead(rok, b, took) ==
    /\ wpc = "read"
    /\ wdev = "NeverReady" => rok
    /\ now' = now + took
    /\ LET buf == IF ~rok THEN wbuf
                  ELSE IF wdev = "NeverReady" THEN NeverReadyRead(wbuf)
                  ELSE BusReadInto(wbuf, b)
           r   == wait_iter(rok, buf)
       IN  /\ wbuf' = buf
           /\ ops' = Append(ops, IF rok THEN ReadOp(buf[0]) ELSE ReadErrOp)
           /\ IF r.status = "Err"
              THEN /\ wresult' = IF wmode = "wait_read_timeout"
                                 THEN WaitErrorFrom(r) ELSE r
                   /\ wpc' = "done"
              ELSE IF r.count = 1
              THEN /\ wresult' = WaitReturn(wmode, buf,
                                            TimedOut(now' - start_time, timeout))
                   /\ wpc' = "done"
              ELSE /\ wresult' = wresult
                   /\ wpc' = AfterNotReady(wmode)
    /\ UNCHANGED <<wmode, wdev, delay, timeout, start_time, iter_start>>
    /\ UNCHANGED <<protoVars, chkVars, tagVars, rtVars, cmdVars>>

\* wait_read_timeout, lines 94-96
WaitCheck ==
    /\ wpc = "check"
    /\ IF TimedOut(now - start_time, timeout)
       THEN /\ wresult' = Timeout
            /\ wpc' = "done"
       ELSE /\ wresult' = wresult
            /\ wpc' = "sleep"
    /\ UNCHANGED <<wmode, wdev, delay, timeout, now, start_time, iter_start,
                   ops, wbuf>>
    /\ UNCHANGED <<protoVars, chkVars, tagVars, rtVars, cmdVars>>

\* the commands of a PN532
SamConfigure(mode) == [name |-> "sam_configure", arg |-> mode]
ListTags(op_data) == [name |-> "list_tags", arg |-> op_data]

\* the slice the command hands to send_wait_ack
CmdPayload(c) ==
    IF c.name = "sam_configure" THEN SamCommand(c.arg) ELSE ListTagsCommand(c.arg)

\* the buffer the command hands to recv_reply_ack: sam_configure's rcvbuf
\* (mod.rs:200), list_tags's command buffer (mod.rs:219)
CmdReplyBuf(c) ==
    IF c.name = "sam_configure" THEN Filled(1, 0) ELSE ListTagsBuf(c.arg).buf

\* what the command returns once recv_reply_ack has returned r and left buf
CmdResult(c, r, buf) ==
    IF c.name = "sam_configure" THEN Listed(SamResult(r, buf), <<>>)
    ELSE ListTagsResult(c.arg, r, buf)

\* a try! that goes on after an error
try_ignore(r, next) == next

\* try!(r): an error ends the command, otherwise it goes on to next
try(r, next) == IF r.status = "Err" THEN "done" ELSE next

\* the outcome of a stage, as logged in cops
StageOk(r, stage) == IF r.status = "Err" THEN stage \o "_err" ELSE stage \o "_ok"

\* The command up to the return of send (mod.rs:188-199 / 214-218,
\* proto.rs:107): the payload is built (list_tags's fill_buf may panic) and
\* sent; wok is the outcome of the transport's write.
CmdStart(c, wok) ==
    /\ cstage = "idle"
    /\ cmd' = c
    /\ ctags' = <<>>
    /\ answered' = answered
    /\ IF c.name = "list_tags" /\ ListTagsBuf(c.arg).panic
       THEN /\ wok
            /\ cstage' = "done"
            /\ cresult' = Panic
            /\ cops' = <<>>
            /\ UNCHANGED <<protoVars, extVars>>
       ELSE /\ SendCall(CmdPayload(c), wok)
            /\ UNCHANGED rounds
            /\ cops' = [i \in 1..Len(bus_writes') |-> "write"]
                           \o <<StageOk(result', "send")>>
            /\ cstage' = try(result', "sent")
            /\ cresult' = IF result'.status = "Err" THEN result' ELSE NoResult

\* send_wait_ack, proto.rs:108: recv_ack is entered
CmdRecvAck ==
    /\ cstage = "sent"
    /\ RecvAckCall
    /\ cstage' = "ack"
    /\ UNCHANGED <<cmd, cops, cresult, ctags, answered>>

\* one bus read of recv_ack's wait_read and, when the chip is ready, the
\* return of recv_ack and of send_wait_ack
CmdAckPoll(rok) ==
    /\ cstage = "ack"
    /\ AckWaitIter(rok)
    /\ answered' = (answered \/ rok)
    /\ IF pc' = "acked"
       THEN /\ cops' = cops \o <<"ack_read", StageOk(result', "ack")>>
            /\ cstage' = try(result', "acked")
            /\ cresult' = IF result'.status = "Err" THEN result' ELSE NoResult
       ELSE /\ cops' = Append(cops, "ack_read")
            /\ UNCHANGED <<cstage, cresult>>
    /\ UNCHANGED <<cmd, ctags>>

\* recv_reply_ack(buf) is entered: it receives the reply into buf as recv does
recv_reply_ack(buf) == RecvInto(buf)

\* mod.rs:201 / 219
CmdRecvReply ==
    /\ cstage = "acked"
    /\ recv_reply_ack(CmdReplyBuf(cmd))
    /\ cstage' = "reply"
    /\ UNCHANGED <<cmd, cops, cresult, ctags, answered>>

\* one bus read of recv_reply_ack's wait_read and, when the chip is ready,
\* the rest of the command
CmdReplyPoll(rok) ==
    /\ cstage = "reply"
    /\ WaitIter(rok)
    /\ answered' = (answered \/ rok)
    /\ IF pc' = "recvd"
       THEN LET r == CmdResult(cmd, result', dst')
            IN  /\ cops' = cops \o <<"reply_read", StageOk(result', "reply")>>
                /\ cstage' = "done"
                /\ cresult' = r.ret
                /\ ctags' = r.tags
       ELSE /\ cops' = Append(cops, "reply_read")
            /\ UNCHANGED <<cstage, cresult, ctags>>
    /\ UNCHANGED cmd

\* the chip replaces the answer the host has read by its next one
ChipStep(a) ==
    /\ answered
    /\ cstage \in {"ack", "acked", "reply"}
    /\ buf_to_send' = a
    /\ answered' = FALSE
    /\ UNCHANGED <<pc, bus_writes, bus_reads, echo_buf, device, sent, window,
                   dst, dst0, result, parser, pre, fed, step, rounds>>
    /\ UNCHANGED <<extVars, cmd, cstage, cops, cresult, ctags>>

\* the unit tests' harness: one more byte is fed to a ResponseParser and to
\* a PreambleParser (proto.rs:188-231).  Feeding stops at the first error
\* (the tests unwrap, process_packet returns); the preamble scan stops when
\* next returns None.
FeedByte(b) ==
    /\ Len(fed) < MaxFeed
    /\ step.status # "Err"
    /\ LET s == ResponseParser_next(parser, b)
       IN  /\ parser' = s.self
           /\ step' = s.ret
    /\ pre' = IF pre = "None" THEN "None" ELSE PreambleParser_next(pre, b)
    /\ fed' = Append(fed, b)
    /\ UNCHANGED <<pc, bus_writes, bus_reads, buf_to_send, echo_buf, device,
                   sent, window, dst, dst0, result, rounds>>
    /\ UNCHANGED extVars

\* PN532Proto::recv_with_timeout(data, timeout) up to the loop of
\* wait_read_timeout: the local window is zeroed (proto.rs:172) and the
\* waiter takes its start time (bus/mod.rs:88)
RecvTimeoutInto(data, t) ==
    /\ rt_pc = "idle"
    /\ rt_pc' = "wait_read_timeout"
    /\ rt_window' = Filled(WindowLen, 0)
    /\ rt_dst' = data
    /\ rt_result' = NoResult
    /\ timeout' = t
    /\ start_time' = now

\* One iteration of wait_read_timeout's loop (bus/mod.rs:89-97) inside
\* recv_with_timeout and, when the loop ends, the rest of recv_with_timeout
\* (proto.rs:173-175).  rok is the outcome of the transport's read, the
\* primed clock is the time at which the elapsed time is tested.
RecvTimeoutIter(rok) ==
    /\ rt_pc = "wait_read_timeout"
    /\ LET w == IF rok THEN DeviceRead(rt_window) ELSE rt_window
           r == wait_iter(rok, w)
       IN  /\ rt_window' = w
           /\ IF r.status = "Err"
              THEN /\ rt_result' = WaitError_map(WaitErrorFrom(r), ReadError)
                   /\ rt_pc' = "recvd"
                   /\ rt_dst' = rt_dst
              ELSE IF r.count = 1
              THEN LET p == process_packet(Slice(w, 0, BufLen(w)), rt_dst)
                   IN  /\ rt_result' = IF p.ret.status = "Err"
                                       THEN WaitErrorFrom(p.ret) ELSE p.ret
                       /\ rt_dst' = p.dst
                       /\ rt_pc' = "recvd"
              ELSE IF TimedOut(now' - start_time, timeout)
              THEN /\ rt_result' = WaitError_map(Timeout, ReadError)
                   /\ rt_pc' = "recvd"
                   /\ rt_dst' = rt_dst
              ELSE UNCHANGED <<rt_result, rt_pc, rt_dst>>

\* recv(dst) and recv_with_timeout(dst, t) called with equal destinations of
\* n bytes on two connections whose devices deliver the same reads
RecvBoth(n, t) ==
    /\ pc = "idle"
    /\ RecvIntoStep(FreshDst(n))
    /\ RecvTimeoutInto(FreshDst(n), t)
    /\ UNCHANGED <<wpc, wmode, wdev, delay, now, iter_start, ops, wbuf, wresult>>
    /\ UNCHANGED <<chkVars, tagVars, cmdVars>>

\* both callers sleep and read once; the read takes took clock ticks.  A
\* caller that has returned makes no further read.
PollBoth(rok, took) ==
    /\ pc = "wait_read"
    /\ now' = now + delay + took
    /\ WaitIterStep(rok)
    /\ IF rt_pc = "wait_read_timeout" THEN RecvTimeoutIter(rok)
       ELSE UNCHANGED rtVars
    /\ UNCHANGED <<wpc, wmode, wdev, delay, timeout, start_time, iter_start,
                   ops, wbuf, wresult>>
    /\ UNCHANGED <<chkVars, tagVars, cmdVars>>

\* the chip, busy so far, finishes its work: from now on a read delivers a
ChipReady(a) ==
    /\ pc = "wait_read"
    /\ bus_reads >= 1
    /\ buf_to_send = <<0>>
    /\ buf_to_send' = a
    /\ UNCHANGED <<pc, bus_writes, bus_reads, echo_buf, device, sent, window,
                   dst, dst0, result, parser, pre, fed, step, rounds>>
    /\ UNCHANGED <<extVars, cmdVars>>

\* Tags::new(&buf, &mut pn532) over the buffer a list_tags has filled
TagsNew ==
    /\ tpc = "idle"
    /\ tpc' = "tags"
    /\ tcount' = Tags_new(tbuf).count
    /\ toff' = Tags_new(tbuf).offset
    /\ UNCHANGED <<tbuf, tlast, tchain, tview, trecs>>
    /\ UNCHANGED <<protoVars, chkVars, waitVars, rtVars, cmdVars>>

\* Tags::first(self): the Tags is consumed, the first cursor handed out
TagsFirst ==
    /\ tpc = "tags"
    /\ LET t == Tags_first([offset |-> toff, count |-> tcount])
       IN  /\ toff' = t.offset
           /\ tlast' = t.last
           /\ tchain' = <<t.offset>>
    /\ tpc' = "tag"
    /\ tview' = NoView
    /\ UNCHANGED <<tbuf, tcount, trecs>>
    /\ UNCHANGED <<protoVars, chkVars, waitVars, rtVars, cmdVars>>

\* Tag::next(self): the cursor is consumed; None, the next cursor, or a
\* panic inside response.next()
TagNext ==
    /\ tpc = "tag"
    /\ LET t == Tag_next(tbuf, toff, tlast)
       IN  CASE t.opt = "None" ->
                  /\ tpc' = "none"
                  /\ UNCHANGED <<toff, tlast, tchain>>
             [] t.opt = "Panic" ->
                  /\ tpc' = "panic"
                  /\ UNCHANGED <<toff, tlast, tchain>>
             [] t.opt = "Some" ->
                  /\ tpc' = "tag"
                  /\ toff' = t.offset
                  /\ tlast' = t.last
                  /\ tchain' = Append(tchain, t.offset)
    /\ tview' = NoView
    /\ UNCHANGED <<tbuf, tcount, trecs>>
    /\ UNCHANGED <<protoVars, chkVars, waitVars, rtVars, cmdVars>>

\* an accessor of the cursor is called: it returns a value or panics
TagAccess(name) ==
    /\ tpc = "tag"
    /\ LET v == Access(name, Response(tbuf, toff))
       IN  /\ tview' = [v EXCEPT !.state = IF v.state = "Ok" THEN name ELSE "Panic"]
           /\ tpc' = IF v.state = "Ok" THEN "tag" ELSE "panic"
    /\ UNCHANGED <<tbuf, tcount, toff, tlast, tchain, trecs>>
    /\ UNCHANGED <<protoVars, chkVars, waitVars, rtVars, cmdVars>>

-----------------------------------------------------------------------------
(* Inputs *)

\* payloads of n bytes: a + b*i (mod 256) for i = 0..n-1
Pattern(n, a, b) == [i \in 1..n |-> (a + b * (i - 1)) % 256]

\* the payloads send is tried with
SendPayloads ==
    {Pattern(n, 0, 1) : n \in 0..MaxSendLen} \cup
    {Pattern(n, 42, 5) : n \in 0..MaxSendLen} \cup
    {Pattern(n, 255, 0) : n \in 0..MaxSendLen}

\* the payloads sent through the loopback device
EchoPayloads ==
    {Pattern(n, 42, 5) : n \in 0..MaxEchoLen} \cup
    {Pattern(n, 255, 0) : n \in 0..MaxEchoLen}

\* all sequences over S of length exactly n / at most n
SeqsOfLen(S, n) == [1..n -> S]
SeqsUpTo(S, n) == UNION {SeqsOfLen(S, k) : k \in 0..n}

\* the bytes fed to the parsers: the preamble bytes, the frame identifier,
\* lengths with their checksums (0/0, 1/0xFF, 0xFF/1) and a junk byte
ParserBytes == {0, 1, 51, 213, 255}

\* what a device answers to a read: the ready byte, then either
\*   up to MaxLead bytes 0x00 / 0xFF and a frame, or
\*   so many junk bytes 0x33 that the frame which follows is cut by the
\*   window's end, at most MaxCut bytes after it starts.
\* A frame is a header 00 FF LEN LCS TFI (valid, or with a wrong LCS, or
\* with a wrong TFI) and MaxBody bytes of payload, checksum and trailer.
Junk(n) == [i \in 1..n |-> 51]
Leads == SeqsUpTo({0, 255}, MaxLead)
Header(l, lcs, tfi) == <<0, 255, l, lcs, tfi>>
Headers ==
    {Header(l, wrapping_sub(0, l), TFI_DEVICE) : l \in {0, 1, 2, 3, 255}} \cup
    {Header(2, 255, TFI_DEVICE), Header(1, 255, TFI_HOST)}
Bodies == SeqsOfLen({0, 1, 42, 43}, MaxBody)
Frames == {hdr \o body : hdr \in Headers, body \in Bodies}
Responses ==
    {<<1>> \o lead \o f : lead \in Leads, f \in Frames} \cup
    {<<1>> \o Junk(n) \o f : n \in (WindowLen - 1 - MaxCut)..(WindowLen - 1), f \in Frames}
    \cup {<<>>, <<0>>, <<1>>, <<1, 0>>}

-----------------------------------------------------------------------------
(* Specifications *)

InitCommon ==
    /\ pc = "idle"
    /\ bus_writes = <<>>
    /\ bus_reads = 0
    /\ sent = <<>>
    /\ window = Filled(WindowLen, 0)
    /\ dst = <<>>
    /\ dst0 = <<>>
    /\ result = NoResult
    /\ parser = ResponseDefault
    /\ pre = PreambleDefault
    /\ fed = <<>>
    /\ step = NoResult
    /\ rounds = 0

\* no checksum has been computed
ChkIdle ==
    /\ chk_init = 0
    /\ chk_data = <<>>
    /\ chk_out = -1

\* no BusyWait call has been made
WaitIdle ==
    /\ wpc = "idle"
    /\ wmode = "wait_read"
    /\ wdev = "NeverReady"
    /\ delay = 1
    /\ timeout = 0
    /\ now = 0
    /\ start_time = 0
    /\ iter_start = 0
    /\ ops = <<>>
    /\ wbuf = <<>>
    /\ wresult = NoResult

\* no command has been issued
CmdIdle ==
    /\ cmd = [name |-> "", arg |-> <<>>]
    /\ cstage = "idle"
    /\ cops = <<>>
    /\ cresult = NoResult
    /\ ctags = <<>>
    /\ answered = FALSE

\* no tag buffer has been filled
TagIdle ==
    /\ tbuf = <<>>
    /\ tpc = "idle"
    /\ tcount = 0
    /\ toff = 0
    /\ tlast = FALSE
    /\ tchain = <<>>
    /\ tview = NoView
    /\ trecs = <<>>

\* no recv_with_timeout call has been made
RtIdle ==
    /\ rt_pc = "idle"
    /\ rt_window = <<>>
    /\ rt_dst = <<>>
    /\ rt_result = NoResult

\* the harnesses beside the connection are not in use
ExtIdle == ChkIdle /\ WaitIdle /\ CmdIdle /\ TagIdle /\ RtIdle

\* send alone, over a test double and over a bus that may fail
InitSend ==
    /\ InitCommon
    /\ ExtIdle
    /\ echo_buf = <<>>
    /\ device \in {"BufSender", "I2C"}
    /\ buf_to_send = <<>>

\* one send on a fresh connection
Send ==
    /\ pc = "idle"
    /\ \E data \in SendPayloads, wok \in BOOLEAN : SendCall(data, wok)
    /\ UNCHANGED rounds
    /\ UNCHANGED cmdVars

NextSend == Send

SpecSend == InitSend /\ [][NextSend]_vars

\* recv from a device that answers with a fixed response (the tests' b2p)
InitRecv ==
    /\ InitCommon
    /\ ExtIdle
    /\ echo_buf = <<>>
    /\ device = "BufSender"
    /\ buf_to_send \in Responses

\* one recv on a fresh connection, into a destination of 0..MaxDst bytes
Recv ==
    /\ pc = "idle"
    /\ \E n \in 0..MaxDst : RecvCall(n)
    /\ UNCHANGED cmdVars

Poll ==
    /\ \E rok \in BOOLEAN : WaitIter(rok)
    /\ UNCHANGED cmdVars

NextRecv == Recv \/ Poll

SpecRecv == InitRecv /\ [][NextRecv]_vars

\* send and recv through the loopback device (the test `send`)
InitEcho ==
    /\ InitCommon
    /\ ExtIdle
    /\ device = "Echo"
    /\ echo_buf = Filled(OutBufLen, 0)
    /\ buf_to_send = <<>>

EchoSend ==
    /\ rounds < MaxRounds
    /\ rounds' = rounds + 1
    /\ \E data \in EchoPayloads : SendCall(data, TRUE)
    /\ UNCHANGED cmdVars

EchoRecv ==
    /\ RecvCall(RecvBufLen)
    /\ UNCHANGED cmdVars

NextEcho == EchoSend \/ EchoRecv \/ Poll

SpecEcho == InitEcho /\ [][NextEcho]_vars

\* the parsers fed byte by byte
InitParser ==
    /\ InitCommon
    /\ ExtIdle
    /\ echo_buf = <<>>
    /\ device = "BufSender"
    /\ buf_to_send = <<>>

Feed ==
    /\ \E b \in ParserBytes : FeedByte(b)
    /\ UNCHANGED cmdVars

NextParser == Feed

SpecParser == InitParser /\ [][NextParser]_vars

\* what a device answers to the read of recv_ack: the ready byte, junk, and
\* then an ACK, a NACK, a reply frame, a bare or broken preamble, or nothing;
\* the junk is short, or so long that the window's end cuts what follows
AckTails ==
    {<<0, 0, 255, 0, 255, 0>>, <<0, 0, 255, 255, 0, 0>>,
     <<0, 255, 2, 254, 213, 42, 1>>, <<0, 255>>, <<255, 0>>, <<0, 1, 255>>,
     <<0, 0, 255>>, <<0>>, <<>>}
AckOffsets == (0..MaxLead) \cup ((WindowLen - 1 - MaxCut)..(WindowLen - 1))
AckResponses ==
    {<<rdy>> \o Junk(n) \o t : rdy \in {1, 3}, n \in AckOffsets, t \in AckTails}
    \cup {<<0>> \o t : t \in AckTails} \cup {<<>>}

InitAck ==
    /\ InitCommon
    /\ ExtIdle
    /\ echo_buf = <<>>
    /\ device = "BufSender"
    /\ buf_to_send \in AckResponses

\* one recv_ack on a fresh connection
RecvAck ==
    /\ pc = "idle"
    /\ RecvAckCall
    /\ UNCHANGED cmdVars

AckPoll ==
    /\ \E rok \in BOOLEAN : AckWaitIter(rok)
    /\ UNCHANGED cmdVars

NextAck == RecvAck \/ AckPoll

SpecAck == InitAck /\ [][NextAck]_vars

\* the first bytes a bus delivers: ready (bit 0 set) or not
WaitBytes == {0, 1, 2, 3}

\* the buffers handed to a BusyWait call, stale content included
WaitBufs == {Filled(1, 0), Filled(2, 1)}

\* a BusyWait over an idle connection
InitBusyWait ==
    /\ InitCommon
    /\ ChkIdle
    /\ CmdIdle
    /\ TagIdle
    /\ RtIdle
    /\ echo_buf = <<>>
    /\ device = "BufSender"
    /\ buf_to_send = <<>>
    /\ wpc = "idle"
    /\ wmode = "wait_read"
    /\ delay \in 1..MaxDelay
    /\ timeout \in 0..MaxTimeout
    /\ now = 3
    /\ start_time = 0
    /\ iter_start = 0
    /\ ops = <<>>
    /\ wbuf \in WaitBufs
    /\ wresult = NoResult

\* wait_read and wait_read_timeout over a bus that may deliver any first
\* byte and may fail
InitWait ==
    /\ InitBusyWait
    /\ wdev = "Bus"

WaitStart == \E mode \in {"wait_read", "wait_read_timeout"} : WaitCall(mode)

WaitSleeps == \E jitter \in 0..MaxJitter : WaitSleep(jitter)

WaitReads ==
    \E rok \in BOOLEAN, b \in WaitBytes, took \in 0..MaxReadTime : WaitRead(rok, b, took)

NextWait == WaitStart \/ WaitSleeps \/ WaitReads \/ WaitCheck

SpecWait == InitWait /\ [][NextWait]_vars

\* wait_read_timeout over NeverReady (the test `test_timeout`).  The call
\* runs on one thread that is never suspended for good: whatever step is
\* next is eventually taken.
InitNeverReady ==
    /\ InitBusyWait
    /\ wdev = "NeverReady"

NeverReadyStart == WaitCall("wait_read_timeout")

NeverReadyPoll == \E took \in 0..MaxReadTime : WaitRead(TRUE, 0, took)

NextNeverReady == NeverReadyStart \/ WaitSleeps \/ NeverReadyPoll \/ WaitCheck

SpecNeverReady == InitNeverReady /\ [][NextNeverReady]_vars /\ WF_vars(NextNeverReady)

\* what the chip delivers for the reply payload p: the ready byte and the
\* frame 00 00 FF LEN LCS D5 p DCS
ChipReply(p) ==
    <<1, 0, 0, 255, as_u8(Len(p) + 1), wrapping_sub(0, as_u8(Len(p) + 1)), TFI_DEVICE>>
        \o p \o <<wrapping_sub(0, calc_checksum(TFI_DEVICE, p))>>

\* the answers of the chip: not ready, an ACK, junk, replies to
\* sam_configure (0x15, another byte, empty, two bytes, a wrong checksum)
\* and to list_tags (no tag, one ISO14443A tag, a tag count with no records)
ChipAnswers ==
    {<<0>>, <<1, 0, 0, 255, 0, 255, 0>>, <<1, 51, 51>>,
     ChipReply(<<21>>), ChipReply(<<22>>), ChipReply(<<>>), ChipReply(<<21, 7>>),
     <<1, 0, 0, 255, 2, 254, 213, 21, 0>>,
     ChipReply(<<75, 0>>),
     ChipReply(<<75, 1, 1, 0, 4, 8, 32, 2, 170, 187, 0>>),
     ChipReply(<<75, 60>>)}

\* the modes sam_configure is called with
SamModes ==
    {Normal(-1), Normal(1), Normal(5), VirtualCard(0), VirtualCard(5),
     WiredCard(-1), WiredCard(5), DualCard(-1), DualCard(255)}

\* the options list_tags is called with; a uid of 252 bytes still fits a
\* frame, 253 bytes do not, and 254 bytes do not fit the command buffer
ListOptions ==
    {ISO14443A(1, FALSE, <<>>), ISO14443A(2, TRUE, <<1, 2, 3, 4>>),
     ISO14443A(1, TRUE, Pattern(MaxPayload - 2, 7, 1)),
     ISO14443A(1, TRUE, Pattern(MaxPayload - 1, 7, 1)),
     ISO14443A(2, TRUE, Pattern(MaxPayload, 7, 1)),
     FeliCa212(1, <<1, 2, 3, 4, 5>>), FeliCa424(2, <<0, 255, 255, 0, 0>>),
     ISO14443B(1, 9, TRUE, 1), ISO14443B(2, 9, FALSE, 0), JewelTag}

Commands == {SamConfigure(m) : m \in SamModes} \cup {ListTags(o) : o \in ListOptions}

\* one command on a PN532 behind a bus that may fail
InitCmd ==
    /\ InitCommon
    /\ ChkIdle
    /\ WaitIdle
    /\ TagIdle
    /\ RtIdle
    /\ echo_buf = <<>>
    /\ device = "I2C"
    /\ buf_to_send \in ChipAnswers
    /\ cmd = [name |-> "", arg |-> <<>>]
    /\ cstage = "idle"
    /\ cops = <<>>
    /\ cresult = NoResult
    /\ ctags = <<>>
    /\ answered = FALSE

Command == \E c \in Commands, wok \in BOOLEAN : CmdStart(c, wok)

CmdAckPolls == \E rok \in BOOLEAN : CmdAckPoll(rok)

CmdReplyPolls == \E rok \in BOOLEAN : CmdReplyPoll(rok)

Chip == \E a \in ChipAnswers : ChipStep(a)

NextCmd == Command \/ CmdRecvAck \/ CmdAckPolls \/ CmdRecvReply \/ CmdReplyPolls \/ Chip

SpecCmd == InitCmd /\ [][NextCmd]_vars

\* calc_checksum applied to an initial byte and a byte sequence (the cases
\* of the test `chksum` among them)
ChkInits == {0, 2, 128, 253, 255}
ChkBytes == {1, 2, 3, 128, 255}

InitChksum ==
    /\ InitCommon
    /\ echo_buf = <<>>
    /\ device = "BufSender"
    /\ buf_to_send = <<>>
    /\ chk_init \in ChkInits
    /\ chk_data \in SeqsUpTo(ChkBytes, MaxChkLen)
    /\ chk_out = -1
    /\ WaitIdle
    /\ CmdIdle
    /\ TagIdle
    /\ RtIdle

Chksum ==
    /\ chk_out = -1
    /\ chk_out' = calc_checksum(chk_init, chk_data)
    /\ UNCHANGED <<protoVars, chk_init, chk_data, waitVars, tagVars, rtVars, cmdVars>>

NextChksum == Chksum

SpecChksum == InitChksum /\ [][NextChksum]_vars

\* an ISO14443A tag record as the chip reports it: tag number, SensRes
\* (big-endian), SelRes, the NFCID led by its length, the ATS length byte m
\* and the ATS bytes that follow it
Record(tg, sens, sel, id, m, ats) ==
    <<tg, sens \div 256, sens % 256, sel, Len(id)>> \o id \o <<m>> \o ats

\* the ATS of a record, as its length byte and the bytes after it: the
\* length byte counts itself (1 and nothing, 3 and two bytes) or it does not
\* (0 and nothing, 2 and two bytes)
AtsForms == {<<1, <<>>>>, <<3, <<117, 119>>>>, <<0, <<>>>>, <<2, <<117, 119>>>>}

FirstRecords ==
    {Record(1, 4, 8, <<1, 2, 3, 4>>, a[1], a[2]) : a \in AtsForms} \cup
    {Record(1, 836, 32, <<4, 17, 34, 51, 68, 85, 102>>, a[1], a[2]) : a \in AtsForms}

SecondRecords ==
    {Record(2, 68, 0, <<222, 173, 190, 239>>, 1, <<>>),
     Record(2, 68, 0, <<222, 173, 190, 239>>, 2, <<120, 128>>)}

\* the records of a list_tags reply: none, one or two
TagReplies ==
    {<<>>} \cup {<<r>> : r \in FirstRecords}
    \cup {<<r1, r2>> : r1 \in FirstRecords, r2 \in SecondRecords}

\* the records one after the other
RECURSIVE Flatten(_)
Flatten(recs) == IF recs = <<>> THEN <<>> ELSE Head(recs) \o Flatten(Tail(recs))

\* the buffer a list_tags reply leaves: the status 0x4B, the tag count, the
\* records back to back; what the reply did not reach holds fill
ReplyBuffer(recs, fill) ==
    LET r == <<75, Len(recs)>> \o Flatten(recs)
    IN  [i \in 0..(TagBufLen - 1) |-> IF i < Len(r) THEN r[i + 1] ELSE fill]

\* a corrupted reply: the byte at offset c[1] is c[2].  Offset 1 is the tag
\* count, 6 the NFCID length of the first record, 11 its ATS length when
\* the NFCID has 4 bytes
Corruptions ==
    {<<1, 0>>, <<1, 1>>, <<1, 2>>, <<1, 3>>, <<1, 255>>,
     <<6, 100>>, <<6, 248>>, <<6, 249>>, <<6, 255>>, <<11, 240>>, <<11, 255>>}

Corrupt(buf, c) == IF c = <<>> THEN buf ELSE [buf EXCEPT ![c[1]] = c[2]]

\* a chain of cursors over a buffer that holds a reply, sound or corrupted;
\* the bytes behind the reply are whatever the buffer held before
InitTags ==
    /\ InitCommon
    /\ ChkIdle
    /\ WaitIdle
    /\ CmdIdle
    /\ RtIdle
    /\ echo_buf = <<>>
    /\ device = "BufSender"
    /\ buf_to_send = <<>>
    /\ \E recs \in TagReplies, fill \in {0, 255}, c \in Corruptions \cup {<<>>} :
           /\ tbuf = Corrupt(ReplyBuffer(recs, fill), c)
           /\ trecs = IF c = <<>> THEN recs ELSE <<>>
    /\ tpc = "idle"
    /\ tcount = 0
    /\ toff = 0
    /\ tlast = FALSE
    /\ tchain = <<>>
    /\ tview = NoView

TagAccesses == \E name \in Accessors : TagAccess(name)

NextTags == TagsNew \/ TagsFirst \/ TagNext \/ TagAccesses

SpecTags == InitTags /\ [][NextTags]_vars

\* recv and recv_with_timeout side by side over an I2C bus.  The chip
\* answers at once or after some busy reads; an answer is the ready byte and
\* a frame, or a frame cut by the window's end, or no frame at all.
TimeoutBodies == SeqsOfLen({0, 43}, MaxBody)
TimeoutAnswers ==
    {<<1>> \o hdr \o body : hdr \in Headers, body \in TimeoutBodies} \cup
    {<<1>> \o Junk(WindowLen - 1 - n) \o Header(1, 255, TFI_DEVICE) : n \in 3..5}
    \cup {<<1>>, <<1, 0>>}

InitRecvTimeout ==
    /\ InitCommon
    /\ ChkIdle
    /\ CmdIdle
    /\ TagIdle
    /\ RtIdle
    /\ echo_buf = <<>>
    /\ device = "I2C"
    /\ buf_to_send \in TimeoutAnswers \cup {<<0>>}
    /\ wpc = "idle"
    /\ wmode = "wait_read_timeout"
    /\ wdev = "Bus"
    /\ delay \in 1..MaxDelay
    /\ timeout = 0
    /\ now = 3
    /\ start_time = 0
    /\ iter_start = 0
    /\ ops = <<>>
    /\ wbuf = <<>>
    /\ wresult = NoResult

RecvBothCall == \E n \in 0..MaxDst, t \in 0..MaxTimeout : RecvBoth(n, t)

PollsBoth == \E rok \in BOOLEAN, took \in 0..MaxReadTime : PollBoth(rok, took)

ChipReadies == \E a \in TimeoutAnswers : ChipReady(a)

NextRecvTimeout == RecvBothCall \/ PollsBoth \/ ChipReadies

SpecRecvTimeout == InitRecvTimeout /\ [][NextRecvTimeout]_vars

\* recv of answers that reach or pass the end of the window: the chip,
\* at once or after some busy reads, delivers the ready byte, 00 FF or
\* 00 00 FF, a frame with a payload of 0..MaxEchoLen or 254 bytes and the
\* postamble.  The caller's buffer is small or as large as list_tags's.
LongFrame(p) ==
    <<0, 255, Len(p) + 1, wrapping_sub(0, Len(p) + 1), TFI_DEVICE>> \o p \o
    <<wrapping_sub(0, calc_checksum(TFI_DEVICE, p)), 0>>
LongPayloads == EchoPayloads \cup {Pattern(254, 1, 3)}
LongAnswers ==
    {<<1>> \o lead \o LongFrame(p) : lead \in {<<>>, <<0>>}, p \in LongPayloads}

InitWindow ==
    /\ InitCommon
    /\ ExtIdle
    /\ echo_buf = <<>>
    /\ device = "BufSender"
    /\ buf_to_send \in LongAnswers \cup {<<0>>}

RecvLong ==
    /\ pc = "idle"
    /\ \E n \in {MaxDst, CmdBufLen} : RecvCall(n)
    /\ UNCHANGED cmdVars

ChipReadyLong == \E a \in LongAnswers : ChipReady(a)

NextWindow == RecvLong \/ Poll \/ ChipReadyLong

SpecWindow == InitWindow /\ [][NextWindow]_vars

-----------------------------------------------------------------------------
(* Properties of calc_checksum (checked under SpecChksum) *)

\* C12: for every initial byte s and every byte sequence xs,
\* calc_checksum(s, xs) = (s + sum(xs)) mod 256: the sum wraps around and
\* the result is a byte, there is no overflow failure.
C12_ChecksumFold ==
    chk_out # -1 =>
        /\ chk_out = (chk_init + SumSeq(chk_data)) % 256
        /\ chk_out \in Byte

\* the checksum of [1,2,3] from 253 has wrapped around to 3
C12_Witness ==
    /\ chk_init = 253
    /\ chk_data = <<1, 2, 3>>
    /\ chk_out = 3

-----------------------------------------------------------------------------
(* Properties of send (checked under SpecSend) *)

\* the frame the wire format prescribes for payload p
WireLEN(p) == Len(p) + 1
WireLCS(p) == (256 - WireLEN(p)) % 256
WireDCS(p) == (256 - ((212 + SumSeq(p)) % 256)) % 256
WireFrame(p) == <<0, 255, WireLEN(p), WireLCS(p), 212>> \o p \o <<WireDCS(p)>>

\* C1: for every payload p of 0..254 bytes, send(p) performs exactly one bus
\* write, whose bytes are 00 FF LEN LCS D4 p DCS (len(p)+6 bytes) with
\* LEN = len(p)+1, LCS = (256-LEN) mod 256 and
\* DCS = (256 - ((0xD4 + sum(p)) mod 256)) mod 256, so that LEN+LCS and
\* 0xD4+sum(p)+DCS are both 0 mod 256.
C1_SendWritesOneFrame ==
    (pc = "sent" /\ Len(sent) <= 254) =>
        /\ Len(bus_writes) = 1
        /\ bus_writes[1] = WireFrame(sent)
        /\ Len(bus_writes[1]) = Len(sent) + 6
        /\ (bus_writes[1][3] + bus_writes[1][4]) % 256 = 0
        /\ (212 + SumSeq(sent) + bus_writes[1][Len(sent) + 6]) % 256 = 0

\* a 254-byte payload whose sum wraps has been sent in one write
C1_Witness ==
    /\ pc = "sent"
    /\ Len(sent) = 254
    /\ SumSeq(sent) > 255
    /\ result = Ok(0)
    /\ Len(bus_writes) = 1

\* C2: send(p) fails with TooMuchData exactly when len(p) > 254 (254 bytes
\* are accepted, 255 rejected), and a rejected send performs no bus write.
C2_TooMuchData ==
    pc = "sent" =>
        /\ (result.err = "TooMuchData") <=> (Len(sent) > 254)
        /\ Len(sent) > 254 => (result = TooMuchData(Len(sent)) /\ bus_writes = <<>>)
        /\ Len(sent) <= 254 => Len(bus_writes) = 1

\* a 255-byte payload has been rejected
C2_Witness ==
    /\ pc = "sent"
    /\ Len(sent) = 255
    /\ result = TooMuchData(255)
    /\ bus_writes = <<>>

-----------------------------------------------------------------------------
(* Round trip through the loopback device (checked under SpecEcho) *)

\* C3: for every payload p whose frame fits one 32-byte read window
\* (len(p)+6 bytes behind the ready byte), send(p) followed by recv through
\* the loopback device returns len(p) and exactly the bytes of p.
C3_RoundTrip ==
    (pc = "recvd" /\ rounds >= 1 /\ 1 + Len(sent) + 6 <= 32) =>
        /\ result = Ok(Len(sent))
        /\ Slice(dst, 0, Len(sent)) = sent

\* the longest payload that fits has made the round trip, as the second
\* frame through the device
C3_Witness ==
    /\ pc = "recvd"
    /\ rounds = 2
    /\ Len(sent) = 25
    /\ result = Ok(25)
    /\ Slice(dst, 0, 25) = sent

-----------------------------------------------------------------------------
(* Properties of recv (checked under SpecRecv).  They describe the window *)
(* by its bytes, W[1] being the ready byte, and not by the parser.        *)

W == Slice(window, 0, WindowLen)

\* a 0x00 immediately followed by 0xFF at w[i], w[i+1]
PairAt(w, i) == i >= 1 /\ i + 1 <= Len(w) /\ w[i] = 0 /\ w[i + 1] = 255

\* the position of the first such pair, 0 when there is none
FirstPair(w) ==
    IF \E i \in 1..Len(w) : PairAt(w, i)
    THEN CHOOSE i \in 1..Len(w) : PairAt(w, i) /\ \A j \in 1..(i - 1) : ~PairAt(w, j)
    ELSE 0

\* a complete valid header 00 FF LEN LCS D5 at w[i..i+4]
HeaderAt(w, i) ==
    /\ PairAt(w, i)
    /\ i + 4 <= Len(w)
    /\ (w[i + 2] + w[i + 3]) % 256 = 0
    /\ w[i + 4] = 213

\* the bytes of the window behind the header at i
RestLen(w, i) == Len(w) - (i + 4)

\* the LEN bytes behind the header at i: payload and data checksum
DataAt(w, i) == SubSeq(w, i + 5, i + 4 + w[i + 2])

\* a valid frame at i: valid header, LEN >= 1, all of it in the window, and
\* 0xD5 + payload + DCS = 0 mod 256
FrameAt(w, i) ==
    /\ HeaderAt(w, i)
    /\ w[i + 2] >= 1
    /\ w[i + 2] <= RestLen(w, i)
    /\ (213 + SumSeq(DataAt(w, i))) % 256 = 0

\* the payload of the frame at i
PayloadAt(w, i) == SubSeq(w, i + 5, i + 3 + w[i + 2])

\* recv has returned the first min(len(p), len(dst)) bytes of p, in order
Returned(p) ==
    LET k == Min(Len(p), BufLen(dst0))
    IN  /\ result = Ok(k)
        /\ BufLen(dst) = BufLen(dst0)
        /\ \A j \in 0..(k - 1) : dst[j] = p[j + 1]

\* C4: when the parser reaches Done(L) with L >= 1, at least L bytes remain
\* in the window and their checksum is valid, recv(dst) copies the first
\* min(L-1, len(dst)) payload bytes into dst in order and returns that
\* count; payload bytes beyond len(dst) are dropped without any error.
C4_CopyMin ==
    pc = "recvd" =>
        LET run == ParseLoop(W, 1, ResponseDefault)
            L   == run.parser.l
            pkt == SubSeq(W, run.used + 1, Len(W))
        IN  (/\ run.err.status # "Err"
             /\ run.parser.st = "Done"
             /\ L >= 1
             /\ Len(pkt) >= L
             /\ (213 + SumSeq(SubSeq(pkt, 1, L))) % 256 = 0)
            => /\ result = Ok(Min(L - 1, BufLen(dst0)))
               /\ \A j \in 0..(Min(L - 1, BufLen(dst0)) - 1) : dst[j] = pkt[j + 1]
               /\ BufLen(dst) = BufLen(dst0)

\* a two-byte payload has been cut to a one-byte destination, without error
C4_Witness ==
    /\ pc = "recvd"
    /\ FrameAt(W, 2)
    /\ W[4] = 3
    /\ BufLen(dst0) = 1
    /\ result = Ok(1)
    /\ dst[0] = W[7]
    /\ W[7] # W[8]

\* C5 as stated: whatever bytes lead up to a valid frame in the window,
\* recv decodes that frame and returns its payload.
C5_AnyLead ==
    pc = "recvd" =>
        \A i \in 2..Len(W) : FrameAt(W, i) => Returned(PayloadAt(W, i))

\* C5, amended: for every window made of the ready byte, leading bytes in
\* which no 0x00 is immediately followed by 0xFF, and then a valid frame
\* (optionally followed by trailing bytes), recv decodes the frame and
\* returns its payload; in particular 0x00 bytes directly before the 00 FF
\* preamble are skipped.
C5_ZeroRunLead ==
    pc = "recvd" =>
        \A i \in 2..Len(W) :
            (FrameAt(W, i) /\ \A j \in 1..(i - 1) : ~PairAt(W, j))
                => Returned(PayloadAt(W, i))

\* a frame behind two extra 0x00 bytes has been decoded
C5_Witness ==
    /\ pc = "recvd"
    /\ W[2] = 0
    /\ W[3] = 0
    /\ FrameAt(W, 4)
    /\ W[6] >= 2
    /\ BufLen(dst0) >= 1
    /\ result.status = "Ok"
    /\ result.count >= 1
    /\ dst[0] = W[9]

\* the window ends before the frame is complete: there is no preamble ...
NoPreamble(w) == FirstPair(w) = 0

\* ... or the header behind the first preamble is cut by the window's end
\* (what there is of it being valid) ...
CutHeader(w) ==
    LET i == FirstPair(w)
    IN  /\ i # 0
        /\ i + 4 > Len(w)
        /\ i + 3 <= Len(w) => (w[i + 2] + w[i + 3]) % 256 = 0

\* ... or fewer than LEN bytes are left behind a complete valid header
ShortBody(w) ==
    LET i == FirstPair(w)
    IN  /\ i # 0
        /\ HeaderAt(w, i)
        /\ w[i + 2] > RestLen(w, i)

\* C9: recv fails with UnexpectedEnd whenever the read window ends before
\* the frame is complete: either the parser has not reached Done when the
\* window is exhausted (no preamble, or header cut short), or fewer than L
\* bytes remain after the frame identifier; the length test comes before
\* the data checksum, so the bytes that are there do not matter.
C9_UnexpectedEnd ==
    (pc = "recvd" /\ (NoPreamble(W) \/ CutHeader(W) \/ ShortBody(W)))
        => /\ result = UnexpectedEnd
           /\ dst = dst0

\* a frame declaring three bytes has been cut by the window's end after its
\* first two, which do not add up to a valid checksum
C9_Witness ==
    /\ pc = "recvd"
    /\ ShortBody(W)
    /\ W[FirstPair(W) + 2] = 3
    /\ RestLen(W, FirstPair(W)) = 2
    /\ (213 + W[31] + W[32]) % 256 # 0
    /\ result = UnexpectedEnd

\* C10: for a frame whose header is valid and whose L >= 1 bytes of payload
\* plus checksum are present, recv succeeds iff (0xD5 + sum of those L
\* bytes) mod 256 = 0, and otherwise fails with InvalidChecksum(Data).
C10_DataChecksum ==
    pc = "recvd" =>
        LET i == FirstPair(W)
        IN  (i # 0 /\ HeaderAt(W, i) /\ W[i + 2] >= 1 /\ W[i + 2] <= RestLen(W, i))
            => IF (213 + SumSeq(DataAt(W, i))) % 256 = 0
               THEN result.status = "Ok"
               ELSE result = InvalidChecksum("Data")

\* a two-byte frame with a wrong data checksum has been rejected
C10_Witness ==
    /\ pc = "recvd"
    /\ HeaderAt(W, 2)
    /\ W[4] = 2
    /\ (213 + W[7] + W[8]) % 256 # 0
    /\ result = InvalidChecksum("Data")
    /\ dst = dst0

\* C11: a frame with a valid header declaring L = 0 (length 0x00, length
\* checksum 0x00, frame identifier 0xD5) is rejected by recv with
\* InvalidByte(0, "value at least 0x01"), whatever bytes follow it (none
\* included), and the destination is left as it was.
C11_ZeroLength ==
    pc = "recvd" =>
        LET i == FirstPair(W)
        IN  (i # 0 /\ HeaderAt(W, i) /\ W[i + 2] = 0)
            => /\ result = InvalidByte(0, "value at least 0x01")
               /\ dst = dst0

\* an empty frame followed by bytes that are not all zero has been rejected
C11_Witness ==
    /\ pc = "recvd"
    /\ HeaderAt(W, 2)
    /\ W[4] = 0
    /\ W[5] = 0
    /\ W[7] = 43
    /\ BufLen(dst0) >= 1
    /\ result = InvalidByte(0, "value at least 0x01")

\* C24: whatever the read window holds and whatever the destination's
\* length (0 included), the decoding in recv ends with a byte count or with
\* one of the typed errors UnexpectedEnd, InvalidChecksum, InvalidByte: no
\* index leaves the window or the destination, so nothing panics.
C24_NoPanic ==
    pc = "recvd" =>
        /\ result.status \in {"Ok", "Err"}
        /\ result.status = "Err" =>
               result.err \in {"UnexpectedEnd", "InvalidChecksum", "InvalidByte"}
        /\ result.status = "Ok" => result.count <= BufLen(dst0)
        /\ BufLen(dst) = BufLen(dst0)

\* a frame that declares 255 bytes where the window has 26 left has been
\* received into an empty destination: UnexpectedEnd
C24_Witness ==
    /\ pc = "recvd"
    /\ BufLen(dst0) = 0
    /\ HeaderAt(W, 2)
    /\ W[4] = 255
    /\ result = UnexpectedEnd

-----------------------------------------------------------------------------
(* Properties of recv's window (checked under SpecWindow) *)

\* the window holds a valid header whose LEN exceeds the bytes behind it
HeaderOverruns ==
    /\ FirstPair(W) >= 1
    /\ HeaderAt(W, FirstPair(W))
    /\ W[FirstPair(W) + 2] > RestLen(W, FirstPair(W))

\* the window holds a valid header that declares a payload of lo..hi bytes
DeclaresPayload(lo, hi) ==
    /\ FirstPair(W) >= 1
    /\ HeaderAt(W, FirstPair(W))
    /\ W[FirstPair(W) + 2] - 1 \in lo..hi

\* C30: one recv decodes a single 32-byte window that starts with the ready
\* byte.  It never returns more than 25 payload bytes; when the header in
\* the window declares a length greater than the number of bytes left in
\* the window behind the frame identifier (as every frame with a payload of
\* 26..254 bytes does), recv fails with UnexpectedEnd and leaves dst alone;
\* and after the read that reported ready no further read is made.
C30_OneWindow ==
    /\ [](pc = "recvd" =>
            /\ result.status = "Ok" => result.count <= 25
            /\ HeaderOverruns => result = UnexpectedEnd /\ dst = dst0
            /\ DeclaresPayload(26, 254) => HeaderOverruns
            /\ Ready(window) /\ Len(W) = WindowLen)
    /\ [][Ready(window) => bus_reads' = bus_reads /\ window' = window]_vars

\* a frame with a 26-byte payload right behind the ready byte, received
\* into a 256-byte buffer after a busy read, has failed with UnexpectedEnd
C30_Witness ==
    /\ pc = "recvd"
    /\ bus_reads >= 2
    /\ BufLen(dst0) = CmdBufLen
    /\ FirstPair(W) = 2
    /\ W[4] = 27
    /\ HeaderOverruns
    /\ result = UnexpectedEnd

-----------------------------------------------------------------------------
(* Properties of recv_ack (checked under SpecAck) *)

\* C13: recv_ack performs one ready-read of a 32-byte window and returns Ok
\* if and only if the window contains a 0x00 byte immediately followed by
\* 0xFF at some position; otherwise it returns UnexpectedEnd.  Nothing
\* after the pair is checked: a window with an ACK, a NACK or a reply frame
\* is accepted alike.
C13_AckIffPair ==
    pc = "acked" =>
        /\ bus_reads = 1
        /\ Len(W) = 32
        /\ window = BufSenderRead(Slice(Filled(32, 0), 0, 32), buf_to_send)
        /\ (result = Ok(0)) <=> (\E i \in 1..31 : PairAt(W, i))
        /\ (~\E i \in 1..31 : PairAt(W, i)) => result = UnexpectedEnd

\* a NACK (00 00 FF FF 00 00) has been accepted as acknowledgement
C13_Witness ==
    /\ pc = "acked"
    /\ SubSeq(W, 2, 7) = <<0, 0, 255, 255, 0, 0>>
    /\ result = Ok(0)

-----------------------------------------------------------------------------
(* Properties of BusyWait (checked under SpecWait and SpecNeverReady) *)

\* C14: in wait_read and wait_read_timeout, delay and bus read strictly
\* alternate starting with a delay: every bus read (the first included) is
\* preceded by exactly one sleep of the configured delay, each iteration
\* performs exactly one bus read, and the call returns success at the first
\* read whose first byte has bit 0 set, with no further read after it.
C14_SleepReadAlternate ==
    LET n == Len(ops)
    IN  /\ \A i \in 1..n :
              IF i % 2 = 1 THEN ops[i] = SleepOp(delay) ELSE ops[i].op # "sleep"
        /\ \A i \in 1..n :
              (ops[i].op = "read" /\ ops[i].arg % 2 = 1)
                  => (i = n /\ wpc = "done" /\ wresult = Ok(BufLen(wbuf)))
        /\ wresult.status = "Ok"
              => (n >= 2 /\ ops[n].op = "read" /\ ops[n].arg % 2 = 1 /\ wpc = "done")
        /\ wpc \in {"sleep", "check", "done"} => n % 2 = 0
        /\ wpc = "read" => n % 2 = 1

\* a call has returned success at its third read, the first two having
\* delivered the not-ready bytes 0x02 and 0x00 and the third 0x03
C14_Witness ==
    /\ wpc = "done"
    /\ wresult = Ok(BufLen(wbuf))
    /\ ops = <<SleepOp(delay), ReadOp(2), SleepOp(delay), ReadOp(0),
               SleepOp(delay), ReadOp(3)>>

\* while the device is never ready the call does not return success, and
\* when it returns, it returns Timeout with more than timeout elapsed
C15_OnlyLate ==
    /\ wresult.status # "Ok"
    /\ wpc = "done" => (wresult = Timeout /\ now - start_time > timeout)
    /\ wresult = Timeout => now - start_time > timeout

\* C15: against a device whose every read reports not-ready and never
\* fails, wait_read_timeout(buf, timeout) never returns success and does
\* return Timeout, and it returns Timeout only at a moment when the time
\* elapsed since the call began strictly exceeds timeout.
C15_NeverReadyTimesOut == [](C15_OnlyLate) /\ <>(wpc = "done")

\* a call with a timeout of two delays and more has timed out after polling
\* three times or more
C15_Witness ==
    /\ wdev = "NeverReady"
    /\ wpc = "done"
    /\ wresult = Timeout
    /\ timeout >= 2 * delay
    /\ Len(ops) >= 6
    /\ now - start_time > timeout

\* C16: when a transport read fails during wait_read or wait_read_timeout,
\* the call returns that failure at once: no further delay or bus read
\* follows the failing read, and wait_read_timeout reports the failure as
\* OtherError, never as Timeout.
C16_ReadFailure ==
    /\ \A i \in 1..Len(ops) :
          ops[i].op = "read_err"
              => /\ i = Len(ops)
                 /\ wpc = "done"
                 /\ wresult = (IF wmode = "wait_read_timeout"
                               THEN OtherError(IoError) ELSE IoError)
                 /\ wresult # Timeout
    /\ wresult.status = "Err" /\ wresult # Timeout
          => (Len(ops) >= 2 /\ ops[Len(ops)].op = "read_err")

\* a wait_read_timeout whose third read failed, past the timeout, has
\* returned OtherError
C16_Witness ==
    /\ wmode = "wait_read_timeout"
    /\ wpc = "done"
    /\ Len(ops) = 6
    /\ ops[6] = ReadErrOp
    /\ now - start_time > timeout
    /\ wresult = OtherError(IoError)

\* the read logged at ops[i] failed or delivered a ready byte
EndsWait(i) ==
    ops[i].op = "read_err" \/ (ops[i].op = "read" /\ ops[i].arg % 2 = 1)

\* C27: wait_read returns if and only if a poll read fails or reports
\* ready, however many attempts that takes: it returns success at the first
\* ready read when no earlier read failed, never gives up on its own, and
\* has not returned for as long as every read reports not-ready.
C27_ReturnsIffReadyOrFailed ==
    (wmode = "wait_read" /\ wpc # "idle") =>
        LET n == Len(ops)
        IN  /\ wpc = "done" <=> (n >= 2 /\ EndsWait(n))
            /\ \A i \in 1..(n - 1) : ~EndsWait(i)
            /\ wpc = "done" =>
                   wresult = (IF ops[n].op = "read" THEN Ok(BufLen(wbuf)) ELSE IoError)
            /\ wpc # "done" => wresult = NoResult

\* a wait_read is about to sleep again after MaxPolls reads, none of which
\* reported ready
C27_Witness ==
    /\ wmode = "wait_read"
    /\ wpc = "sleep"
    /\ Len(ops) = 2 * MaxPolls
    /\ \A i \in 1..Len(ops) : ops[i].op \in {"sleep", "read"} /\ ~EndsWait(i)
    /\ wresult = NoResult

\* the last logged operation is a read that reported not-ready
NotReadyLast ==
    /\ Len(ops) >= 2
    /\ Len(ops) % 2 = 0
    /\ ops[Len(ops)].op = "read"
    /\ ops[Len(ops)].arg % 2 = 0

\* C28: wait_read_timeout evaluates the deadline only at the end of a poll
\* iteration, never during the delay or the read.  It returns Timeout at
\* the end of the first unsuccessful iteration after which the elapsed time
\* exceeds timeout (the iteration that ends in Timeout was entered with no
\* more than timeout elapsed, and the call goes on only while that is so),
\* so the elapsed time at return exceeds timeout by at most the duration of
\* that one iteration, one delay plus one read.
C28_DeadlineAtIterationEnd ==
    (wmode = "wait_read_timeout" /\ wpc # "idle") =>
        /\ wpc = "check" => NotReadyLast
        /\ (wpc = "sleep" /\ Len(ops) >= 2) =>
               (NotReadyLast /\ now - start_time <= timeout)
        /\ wpc = "read" => iter_start - start_time <= timeout
        /\ wresult = Timeout =>
               /\ wpc = "done"
               /\ NotReadyLast
               /\ now - start_time > timeout
               /\ iter_start - start_time <= timeout
               /\ (now - start_time) - timeout <= now - iter_start
               /\ now - iter_start <= delay + MaxJitter + MaxReadTime

\* a call with a timeout of two delays has timed out at the end of its
\* second iteration, which it entered one tick before the deadline and
\* which took two ticks more than the delay
C28_Witness ==
    /\ wmode = "wait_read_timeout"
    /\ wresult = Timeout
    /\ timeout = 2 * delay
    /\ Len(ops) = 4
    /\ iter_start - start_time = timeout - 1
    /\ now - iter_start = delay + 2
    /\ now - start_time = timeout + delay + 1

-----------------------------------------------------------------------------
(* Properties of recv_with_timeout (checked under SpecRecvTimeout) *)

\* recv_with_timeout has returned something other than Timeout
RtDecoded == rt_pc = "recvd" /\ rt_result # Timeout

\* C29: recv_with_timeout decodes exactly as recv.  When the same reads are
\* delivered to both and recv_with_timeout returns before reporting a
\* timeout, recv has returned too, both destinations hold the same bytes,
\* and recv_with_timeout's value is recv's count, or recv's error wrapped
\* as OtherError (OtherError(ReadError) when the transport's read failed).
\* recv_with_timeout returns Timeout only after the deadline has expired,
\* leaving its destination alone, and it does not keep waiting past a
\* not-ready read that ends after the deadline.
C29_SameDecode ==
    /\ RtDecoded =>
         /\ pc = "recvd"
         /\ rt_dst = dst
         /\ result.status = "Ok" => rt_result = result
         /\ result.status = "Err" => rt_result = OtherError(result)
         /\ bus_reads > 0 /\ ~Ready(window) => rt_result = OtherError(ReadError)
    /\ pc = "recvd" => rt_pc = "recvd"
    /\ rt_pc = "recvd" /\ rt_result = Timeout =>
         /\ now - start_time > timeout
         /\ rt_dst = dst0
    /\ rt_pc = "wait_read_timeout" /\ bus_reads > 0 =>
         now - start_time <= timeout

\* both have decoded a payload into a non-empty destination after the chip
\* was busy for at least one read
C29_Witness ==
    /\ RtDecoded
    /\ bus_reads >= 2
    /\ result.status = "Ok"
    /\ result.count >= 1

\* a call that returned ret has left data as the frame effect allows: an
\* error leaves the destination as it was handed in, a count n leaves
\* everything from index n on as it was
WrittenUpTo(ret, data) ==
    /\ BufLen(data) = BufLen(dst0)
    /\ ret.status # "Ok" => data = dst0
    /\ ret.status = "Ok" =>
         /\ ret.count <= BufLen(dst0)
         /\ \A j \in ret.count..(BufLen(dst0) - 1) : data[j] = dst0[j]

\* C31: recv and recv_with_timeout write the destination only after every
\* validation has passed.  When either returns an error (a failed read,
\* Timeout, UnexpectedEnd, InvalidChecksum, InvalidByte) the caller's
\* destination is unchanged; on success at most dst[0..count] is written
\* and dst[count..] is unchanged.
C31_WriteAfterValidation ==
    /\ pc = "recvd" => WrittenUpTo(result, dst)
    /\ rt_pc = "recvd" => WrittenUpTo(rt_result, rt_dst)
    /\ pc = "wait_read" => dst = dst0
    /\ rt_pc = "wait_read_timeout" => rt_dst = dst0

\* both calls have copied a one-byte payload into a two-byte destination:
\* the first byte is the payload's, the second still the caller's
C31_Witness ==
    /\ pc = "recvd"
    /\ rt_pc = "recvd"
    /\ BufLen(dst0) = 2
    /\ result = Ok(1)
    /\ rt_result = Ok(1)
    /\ dst[0] # dst0[0]
    /\ rt_dst[0] # dst0[0]
    /\ dst[1] = dst0[1]
    /\ rt_dst[1] = dst0[1]

\* the last logged operation is a read that reported ready
ReadyLast ==
    /\ Len(ops) >= 2
    /\ ops[Len(ops)].op = "read"
    /\ ops[Len(ops)].arg % 2 = 1

\* C32: in wait_read_timeout the readiness test of an iteration precedes
\* the deadline test.  The call has slept and read at least once before it
\* returns anything, even with a timeout of zero; a read that reports ready
\* ends the call with success whatever the elapsed time is; and Timeout is
\* returned only right after a read that reported not-ready.
C32_ReadyBeforeDeadline ==
    (wmode = "wait_read_timeout" /\ wpc # "idle") =>
        /\ wpc \in {"done", "check"} =>
               /\ Len(ops) >= 2
               /\ ops[1].op = "sleep"
               /\ ops[2].op \in {"read", "read_err"}
        /\ ReadyLast => wpc = "done" /\ wresult = Ok(BufLen(wbuf))
        /\ wresult = Timeout => NotReadyLast /\ ~ReadyLast

\* a call with a timeout of zero has returned success from its first read,
\* which reported ready after the deadline had passed
C32_Witness ==
    /\ wmode = "wait_read_timeout"
    /\ timeout = 0
    /\ Len(ops) = 2
    /\ ReadyLast
    /\ now - start_time > timeout
    /\ wresult = Ok(BufLen(wbuf))



\* the code of a SAM mode, as the command table gives it
SamCodeOf(kind) ==
    CASE kind = "Normal" -> 1
      [] kind = "VirtualCard" -> 2
      [] kind = "WiredCard" -> 3
      [] kind = "DualCard" -> 4

\* the payload of sam_configure(mode), as the command table gives it
SamPayloadOf(mode) ==
    IF mode.to = -1 THEN <<20, SamCodeOf(mode.kind), 1>>
    ELSE <<20, SamCodeOf(mode.kind), mode.to, 1>>

\* C17: sam_configure(mode) sends the payload [0x14, code, 0x01] (3 bytes)
\* when the mode carries no timeout and [0x14, code, t, 0x01] (4 bytes) when
\* it carries timeout t, with code 0x01/0x02/0x03/0x04 for Normal /
\* VirtualCard / WiredCard / DualCard; VirtualCard always takes the 4-byte
\* form.
C17_SamEncoding ==
    (cmd.name = "sam_configure" /\ cstage # "idle") =>
        /\ sent = SamPayloadOf(cmd.arg)
        /\ Len(sent) = (IF cmd.arg.to = -1 THEN 3 ELSE 4)
        /\ cmd.arg.kind = "VirtualCard" => Len(sent) = 4
        /\ cops[1] = "write"
        /\ pc = "sent" => bus_writes = <<WireFrame(SamPayloadOf(cmd.arg))>>

\* sam_configure(Normal(None)) has written the frame of [0x14, 0x01, 0x01]
C17_Witness ==
    /\ cmd = SamConfigure(Normal(-1))
    /\ pc = "sent"
    /\ sent = <<20, 1, 1>>
    /\ bus_writes = <<(<<0, 255, 4, 252, 212, 20, 1, 1, 22>>)>>

\* the log cops has the entry e
Logged(e) == \E i \in 1..Len(cops) : cops[i] = e

\* C18: after a successful send and acknowledgement, sam_configure returns
\* Ok if and only if the decoded reply is non-empty and its first byte is
\* 0x15; a first byte b # 0x15 yields InvalidByte(b, "0x15"), an empty
\* reply yields an error, and so does a reply that does not decode.
C18_SamReply ==
    (cmd.name = "sam_configure" /\ cstage = "done" /\ Logged("ack_ok")) =>
        /\ Logged("reply_ok") \/ Logged("reply_err")
        /\ Logged("reply_err") => cresult.status = "Err"
        /\ Logged("reply_ok") =>
              /\ FrameAt(W, FirstPair(W))
              /\ LET p == PayloadAt(W, FirstPair(W))
                 IN  /\ (cresult = Ok(0)) <=> (Len(p) >= 1 /\ p[1] = 21)
                     /\ (Len(p) >= 1 /\ p[1] # 21) => cresult = InvalidByte(p[1], "0x15")
                     /\ Len(p) = 0 => cresult.status = "Err"

\* the reply 0x16 has been decoded and rejected
C18_Witness ==
    /\ cmd.name = "sam_configure"
    /\ cstage = "done"
    /\ Logged("ack_ok")
    /\ Logged("reply_ok")
    /\ PayloadAt(W, FirstPair(W)) = <<22>>
    /\ cresult = InvalidByte(22, "0x15")

\* the stage of an entry of cops
StageRank(e) ==
    CASE e = "write" -> 1
      [] e \in {"send_ok", "send_err"} -> 2
      [] e = "ack_read" -> 3
      [] e \in {"ack_ok", "ack_err"} -> 4
      [] e = "reply_read" -> 5
      [] e \in {"reply_ok", "reply_err"} -> 6

\* C19: every command call (sam_configure, list_tags) issues its bus
\* operations in the order: one frame write, then the reads of the
\* acknowledgement wait-read, then the reads of the reply wait-read.  A
\* failure at any stage (send rejected or write failed, acknowledgement not
\* found, reply malformed) ends the call with that error, with no bus
\* operation of a later stage and no second write.
C19_CommandOrder ==
    LET n == Len(cops)
    IN  /\ \A i \in 1..n : cops[i] = "write" => i = 1
        /\ \A i \in 1..n : \A j \in (i + 1)..n :
              \/ StageRank(cops[i]) < StageRank(cops[j])
              \/ cops[i] = cops[j] /\ cops[i] \in {"ack_read", "reply_read"}
        /\ \A i \in 1..n :
              cops[i] \in {"send_err", "ack_err", "reply_err"}
                  => (i = n /\ cstage = "done" /\ cresult = result
                      /\ cresult.status = "Err")
        /\ Logged("send_err") => (n = 1 <=> cresult.err = "TooMuchData")
        /\ Logged("send_ok") => cops[1] = "write"
        /\ Logged("ack_read") => Logged("send_ok")
        /\ Logged("ack_ok") \/ Logged("ack_err") => Logged("ack_read")
        /\ Logged("reply_read") => Logged("ack_ok")
        /\ Logged("reply_ok") \/ Logged("reply_err") => Logged("reply_read")
        /\ pc \in {"wait_ack", "acked", "wait_read", "recvd"} => bus_writes = <<>>
        /\ pc = "sent" => Len(bus_writes) <= 1
        /\ (cstage = "done" /\ cresult.status = "Ok") => Logged("reply_ok")

\* a list_tags whose acknowledgement was not found at the second read has
\* ended there
C19_Witness ==
    /\ cmd.name = "list_tags"
    /\ cstage = "done"
    /\ cops = <<"write", "send_ok", "ack_read", "ack_read", "ack_err">>
    /\ cresult = UnexpectedEnd

\* the resume UID of an ISO14443A request (none: no bytes) fits the part
\* of the command buffer behind the opcode, the limit and the 0x00
FitsCommandBuffer(op_data) ==
    (IF op_data.some THEN Len(op_data.data) ELSE 0) + 3 <= CmdBufLen

\* what an encoder has written, up to the length it reports
Encoded(f) == Slice(f.buf, 0, f.len)

\* C23: for an ISO14443A request with limit l and a resume UID u that fits
\* the command buffer, the options encoder writes [l, 0x00] and all bytes of
\* u and reports 2 + len(u), and list_tags hands [0x4A, l, 0x00] followed
\* by every byte of u to send; without a UID it hands over [0x4A, l, 0x00].
C23_ListPayload ==
    (/\ cmd.name = "list_tags"
     /\ cstage # "idle"
     /\ cmd.arg.kind = "ISO14443A"
     /\ FitsCommandBuffer(cmd.arg)) =>
        LET l == cmd.arg.limit
            u == IF cmd.arg.some THEN cmd.arg.data ELSE <<>>
            scratch == Filled(CmdBufLen - 1, 0)
            f == fill_buf(cmd.arg, scratch)
            g == ISO14443AListOptions_fill_buf(cmd.arg, scratch)
        IN  /\ ~f.panic
            /\ f.len = 2 + Len(u)
            /\ Encoded(f) = <<l, 0>> \o u
            /\ g.len = 2 + Len(u)
            /\ Encoded(g) = <<l, 0>> \o u
            /\ sent = <<74, l, 0>> \o u

-----------------------------------------------------------------------------
(* Properties of the tag cursors (checked under SpecTags) *)

\* the first cursor of a chain is held
FirstCursor == tpc = "tag" /\ Len(tchain) = 1

\* C21 as stated: for every tag count of 1 or more, the cursor Tags::first
\* returns is over the record at offset 2 and is marked last exactly when
\* the count is 1.
C21_LastIffOne ==
    (FirstCursor /\ tbuf[1] >= 1) =>
        /\ toff = 2
        /\ tlast <=> (tbuf[1] = 1)

\* C21, amended: for every tag count of 1 or more, the cursor Tags::first
\* returns is over the record at offset 2 and is marked last exactly when
\* the count is not 2; for the counts 1 and 2 that is exactly when the
\* count is 1, and a count of 3..255 marks the first cursor last as well.
C21_LastUnlessTwo ==
    (FirstCursor /\ tbuf[1] >= 1) =>
        /\ toff = 2
        /\ tlast <=> (tbuf[1] # 2)
        /\ tbuf[1] \in {1, 2} => (tlast <=> (tbuf[1] = 1))
        /\ tbuf[1] >= 3 => tlast

\* first has returned the cursor of a reply of two tags: it is not last
C21_Witness ==
    /\ FirstCursor
    /\ tbuf[1] = 2
    /\ toff = 2
    /\ ~tlast

\* Tag::next did not return: response.next() panicked
NextPanicked == tpc = "panic" /\ tview = NoView

\* C22: Tag::next returns nothing when the cursor is last and otherwise one
\* new cursor, always marked last; so, whatever the buffer holds, a chain
\* started by Tags::first has at most two cursors, and for a count of 1 or
\* 2 it hands out exactly count cursors before next returns nothing.
C22_ChainOfCount ==
    /\ Len(tchain) <= 2
    /\ (tpc = "tag" /\ Len(tchain) = 2) => tlast
    /\ tpc = "none" => (tlast /\ (tcount \in {1, 2} => Len(tchain) = tcount))
    /\ ~NextPanicked

\* C25: whatever the 256-byte buffer holds (NFCID and ATS length bytes up
\* to 255 included), Tags::first, Tag::next and the ISO14443A length and
\* field accessors index inside the buffer only: a cursor may sit past the
\* intended record boundary, but no access is out of range.
C25_InsideBuffer ==
    (tpc # "idle" /\ tbuf[1] >= 1) =>
        /\ tpc # "panic"
        /\ tview.state # "Panic"
        /\ tpc = "tag" => toff \in 0..(TagBufLen - 1)

\* the second cursor of a chain over a sound reply of two records is held
SecondCursor == tpc = "tag" /\ Len(tchain) = 2 /\ Len(trecs) = 2

\* C26: over a buffer that holds two ISO14443A records back to back (tag
\* number, SensRes, SelRes, NFCID length and NFCID, ATS length and ATS), the
\* cursor Tag::next returns for the first cursor starts at the second
\* record's tag-number byte: its tag number, SensRes, SelRes and NFCID are
\* the second record's, whether the ATS length counts its own byte or not.
C26_SecondRecord ==
    SecondCursor =>
        LET data == Response(tbuf, toff)
            r2   == trecs[2]
        IN  /\ toff = 2 + Len(trecs[1])
            /\ TagResponse_tag_num(data) = Got(<<r2[1]>>)
            /\ Tag_sens_res(data) = Got(<<r2[2] * 256 + r2[3]>>)
            /\ Tag_sel_res(data) = Got(<<r2[4]>>)
            /\ Tag_id(data) = Got(SubSeq(r2, 6, 5 + r2[5]))

-----------------------------------------------------------------------------
(* Properties of the parsers (checked under SpecParser) *)

\* the byte fed by the step
FedByte == fed'[Len(fed')]

\* C6 as stated: the preamble scanner follows the table, in which every
\* byte other than 0xFF (0x00 included) takes ZeroFound back to Start.
C6_TableTransitions ==
    [][pre # "None" =>
        pre' = (IF pre = "Start"
                THEN (IF FedByte = 0 THEN "ZeroFound" ELSE "Start")
                ELSE (IF FedByte = 255 THEN "None" ELSE "Start"))]_vars

\* C6, amended: from Start, byte 0x00 goes to ZeroFound and every other
\* byte stays in Start; from ZeroFound, byte 0xFF completes the preamble,
\* byte 0x00 stays in ZeroFound, and every other byte goes back to Start.
C6_Transitions ==
    [][pre # "None" =>
        pre' = (IF pre = "Start"
                THEN (IF FedByte = 0 THEN "ZeroFound" ELSE "Start")
                ELSE (IF FedByte = 255 THEN "None"
                      ELSE IF FedByte = 0 THEN "ZeroFound" ELSE "Start"))]_vars

\* the scanner has stayed in ZeroFound over a second 0x00 and then
\* completed on 0xFF
C6_Witness ==
    /\ Len(fed) >= 3
    /\ fed[Len(fed) - 2] = 0
    /\ fed[Len(fed) - 1] = 0
    /\ fed[Len(fed)] = 255
    /\ \A j \in 1..(Len(fed) - 2) : ~PairAt(fed, j)
    /\ pre = "None"

\* C7: after the preamble the parser captures any byte as L; the next byte
\* b moves it to FrameIdentifier(L) iff (L + b) mod 256 = 0 and otherwise
\* the parse fails with InvalidChecksum(Length); in FrameIdentifier(L) byte
\* 0xD5 moves it to Done(L) and any other byte b fails with
\* InvalidByte(b, expected 0xD5).
C7_HeaderSteps ==
    [][/\ parser.st = "Length" =>
            (parser' = LengthChksum(FedByte) /\ step'.status = "Ok")
       /\ parser.st = "LengthChksum" =>
            IF (parser.l + FedByte) % 256 = 0
            THEN parser' = FrameIdentifier(parser.l) /\ step'.status = "Ok"
            ELSE step' = InvalidChecksum("Length")
       /\ parser.st = "FrameIdentifier" =>
            IF FedByte = 213
            THEN parser' = Done(parser.l) /\ step'.status = "Ok"
            ELSE step' = InvalidByte(FedByte, "0xD5")]_vars

\* a header with a valid length checksum has failed on its frame identifier
C7_Witness ==
    /\ Len(fed) >= 5
    /\ parser = FrameIdentifier(fed[Len(fed) - 2])
    /\ (fed[Len(fed) - 2] + fed[Len(fed) - 1]) % 256 = 0
    /\ fed[Len(fed)] # 213
    /\ step = InvalidByte(fed[Len(fed)], "0xD5")

\* the first complete valid header among the bytes fed, 0 when none
FirstHeader(s) ==
    IF \E i \in 1..Len(s) : HeaderAt(s, i)
    THEN CHOOSE i \in 1..Len(s) : HeaderAt(s, i) /\ \A j \in 1..(i - 1) : ~HeaderAt(s, j)
    ELSE 0

\* C8: for every byte sequence fed to a fresh frame parser, a length is
\* exposed (pkt_len is Some(L)) iff the parser has consumed, in this order,
\* a 0x00 immediately followed by 0xFF, a length byte L, a byte LCS with
\* L+LCS = 0 mod 256, and 0xD5; Done(L) is terminal, so any further byte
\* leaves the state and the exposed L unchanged, and a sequence that ends
\* earlier never reaches a terminal state.
C8_Exposed ==
    LET h == FirstHeader(fed)
    IN  /\ (pkt_len(parser) # -1) <=> (h # 0)
        /\ h # 0 => pkt_len(parser) = fed[h + 2]
        /\ h = 0 => parser.st # "Done"

C8_Terminal ==
    parser.st = "Done" => (parser' = parser /\ pkt_len(parser') = pkt_len(parser))

C8_LengthExposure == [](C8_Exposed) /\ [][C8_Terminal]_vars

\* a length has been exposed and two more bytes have been fed since
C8_Witness ==
    /\ FirstHeader(fed) # 0
    /\ Len(fed) = FirstHeader(fed) + 6
    /\ parser = Done(fed[FirstHeader(fed) + 2])
    /\ step = Ok(0)

====
